---- MODULE Spec2Model ----
(***************************************************************************)
(* Alpha Forge: the portfolio analytics engines (riskAnalysis,             *)
(* taxReporting, aiAdvisor) applied to the Position Store.                 *)
(*                                                                         *)
(* Numbers.  The engines compute in IEEE doubles.  A number is modelled as *)
(* an exact fraction [num, den] in lowest terms with den > 0, extended by  *)
(* the three special doubles: den = 0 with num = 0 is NaN, num = 1 is      *)
(* +Infinity and num = -1 is -Infinity.  Division by zero therefore yields *)
(* what it yields in JavaScript (0/0 = NaN, x/0 = +-Infinity) and NaN      *)
(* propagates through the arithmetic and fails every comparison.  Rounding *)
(* of finite results is not modelled: finite arithmetic is exact.          *)
(***************************************************************************)
EXTENDS Integers, Sequences, FiniteSets, TLC

VARIABLES positions, out, now, priceCache, priceCalls, everCached,
    alphaCache, lastRequestTime, consecutiveErrors, stockCalls, history,
    clockHours, saves, tasks, templates, taskNow, today, generations,
    storedPortfolios, storedActive, market, refreshes, csvImport, sockets,
    ws, reconnectAttempts, timers, subscribedSymbols, released, opened,
    scheduledSinceOpen, lastClose, estimated, summarised

\* The analytics engines: the positions handed to them, the call in progress.
engineVars == <<positions, out>>

\* priceService: the clock, the cache, the calls in progress, the symbols cached so far.
priceVars == <<now, priceCache, priceCalls, everCached>>

\* alphaVantage: the clock, the cache, the rate limiter, the getStockPrice calls in progress.
limiterVars == <<now, alphaCache, lastRequestTime, consecutiveErrors,
    stockCalls>>

\* portfolioHistory: the stored history, the clock in hours, the saves so far.
historyVars == <<history, clockHours, saves>>

\* Tasks: the stored tasks and templates, the clock, the date, the generations so far.
taskVars == <<tasks, templates, taskNow, today, generations>>

\* portfolioManager: the clock and the two localStorage items.
managerVars == <<now, storedPortfolios, storedActive>>

\* The Position Store of App: positions, the clock, the market, the handlers in progress.
storeVars == <<positions, now, market, refreshes, csvImport>>

\* Finnhub streaming: the sockets made, ws, the counter, the pending timers, the symbols, and what happened so far.
socketVars == <<sockets, ws, reconnectAttempts, timers, subscribedSymbols,
    released, opened, scheduledSinceOpen, lastClose>>

\* Potential savings in binary64: the positions, the last result of calculateTaxEstimate and of getTaxSummary.
savingsVars == <<positions, estimated, summarised>>

vars == <<engineVars, priceVars, limiterVars, historyVars, taskVars,
    managerVars, storeVars, socketVars, savingsVars>>

\* The variables outside engineVars.
serviceVars == <<now, priceCache, priceCalls, everCached, alphaCache,
    lastRequestTime, consecutiveErrors, stockCalls, history, clockHours,
    saves, tasks, templates, taskNow, today, generations, storedPortfolios,
    storedActive, market, refreshes, csvImport, sockets, ws,
    reconnectAttempts, timers, subscribedSymbols, released, opened,
    scheduledSinceOpen, lastClose, estimated, summarised>>

\* The variables outside priceVars.
OutsidePrice == <<positions, out, alphaCache, lastRequestTime,
    consecutiveErrors, stockCalls, history, clockHours, saves, tasks,
    templates, taskNow, today, generations, storedPortfolios, storedActive,
    market, refreshes, csvImport, sockets, ws, reconnectAttempts, timers,
    subscribedSymbols, released, opened, scheduledSinceOpen, lastClose,
    estimated, summarised>>

\* The variables outside limiterVars.
OutsideLimiter == <<positions, out, priceCache, priceCalls, everCached,
    history, clockHours, saves, tasks, templates, taskNow, today,
    generations, storedPortfolios, storedActive, market, refreshes,
    csvImport, sockets, ws, reconnectAttempts, timers, subscribedSymbols,
    released, opened, scheduledSinceOpen, lastClose, estimated, summarised>>

\* The variables outside historyVars.
OutsideHistory == <<positions, out, now, priceCache, priceCalls,
    everCached, alphaCache, lastRequestTime, consecutiveErrors, stockCalls,
    tasks, templates, taskNow, today, generations, storedPortfolios,
    storedActive, market, refreshes, csvImport, sockets, ws,
    reconnectAttempts, timers, subscribedSymbols, released, opened,
    scheduledSinceOpen, lastClose, estimated, summarised>>

\* The variables outside taskVars.
OutsideTask == <<positions, out, now, priceCache, priceCalls, everCached,
    alphaCache, lastRequestTime, consecutiveErrors, stockCalls, history,
    clockHours, saves, storedPortfolios, storedActive, market, refreshes,
    csvImport, sockets, ws, reconnectAttempts, timers, subscribedSymbols,
    released, opened, scheduledSinceOpen, lastClose, estimated, summarised>>

\* The variables outside managerVars.
OutsideManager == <<positions, out, priceCache, priceCalls, everCached,
    alphaCache, lastRequestTime, consecutiveErrors, stockCalls, history,
    clockHours, saves, tasks, templates, taskNow, today, generations,
    market, refreshes, csvImport, sockets, ws, reconnectAttempts, timers,
    subscribedSymbols, released, opened, scheduledSinceOpen, lastClose,
    estimated, summarised>>

\* The variables outside storeVars.
OutsideStore == <<out, priceCache, priceCalls, everCached, alphaCache,
    lastRequestTime, consecutiveErrors, stockCalls, history, clockHours,
    saves, tasks, templates, taskNow, today, generations, storedPortfolios,
    storedActive, sockets, ws, reconnectAttempts, timers,
    subscribedSymbols, released, opened, scheduledSinceOpen, lastClose,
    estimated, summarised>>

\* The variables outside socketVars.
OutsideSocket == <<positions, out, now, priceCache, priceCalls, everCached,
    alphaCache, lastRequestTime, consecutiveErrors, stockCalls, history,
    clockHours, saves, tasks, templates, taskNow, today, generations,
    storedPortfolios, storedActive, market, refreshes, csvImport,
    estimated, summarised>>

\* The variables outside savingsVars.
OutsideSavings == <<out, now, priceCache, priceCalls, everCached,
    alphaCache, lastRequestTime, consecutiveErrors, stockCalls, history,
    clockHours, saves, tasks, templates, taskNow, today, generations,
    storedPortfolios, storedActive, market, refreshes, csvImport, sockets,
    ws, reconnectAttempts, timers, subscribedSymbols, released, opened,
    scheduledSinceOpen, lastClose>>

----------------------------------------------------------------------------
(* IEEE-extended exact fractions                                           *)

Abs(n) == IF n < 0 THEN -n ELSE n

Sgn(n) == IF n < 0 THEN -1 ELSE IF n > 0 THEN 1 ELSE 0

RECURSIVE GCD(_, _)
GCD(a, b) == IF b = 0 THEN a ELSE GCD(b, a % b)

NaN == [num |-> 0, den |-> 0]

PosInf == [num |-> 1, den |-> 0]

NegInf == [num |-> -1, den |-> 0]

\* n/d (d >= 0) in lowest terms; d = 0 gives NaN or a signed infinity.
Rat(n, d) ==
    IF d = 0 THEN [num |-> Sgn(n), den |-> 0]
    ELSE LET g == GCD(Abs(n), d) IN [num |-> n \div g, den |-> d \div g]

Num(n) == [num |-> n, den |-> 1]

Zero == Num(0)

IsNaN(a) == a.den = 0 /\ a.num = 0

IsFinite(a) == a.den > 0

Neg(a) == [num |-> -a.num, den |-> a.den]

\* a + b.  Infinity + -Infinity = NaN; the common denominator is the lcm
\* (the denominator itself when both have the same).
Add(a, b) ==
    IF a.den = 0 /\ b.den = 0 THEN (IF a = b THEN a ELSE NaN)
    ELSE IF a.den = 0 THEN a
    ELSE IF b.den = 0 THEN b
    ELSE IF a.den = b.den THEN Rat(a.num + b.num, a.den)
    ELSE LET g == GCD(a.den, b.den)
             l == (a.den \div g) * b.den
         IN  Rat(a.num * (l \div a.den) + b.num * (l \div b.den), l)

Sub(a, b) == Add(a, Neg(b))

\* a * b.  Infinity * 0 = NaN.  Factors are cancelled crosswise first.
Mul(a, b) ==
    IF a.den = 0 \/ b.den = 0
    THEN [num |-> Sgn(a.num) * Sgn(b.num), den |-> 0]
    ELSE IF a.den = 1 /\ b.den = 1 THEN Num(a.num * b.num)
    ELSE LET g1 == GCD(Abs(a.num), b.den)
             g2 == GCD(Abs(b.num), a.den)
         IN  IF a.num = 0 \/ b.num = 0 THEN Zero
             ELSE [num |-> (a.num \div g1) * (b.num \div g2),
                   den |-> (a.den \div g2) * (b.den \div g1)]

\* 1 / a.  1/0 = +Infinity, 1/Infinity = 0, 1/NaN = NaN.
Recip(a) ==
    IF a.num = 0 THEN (IF a.den = 0 THEN NaN ELSE PosInf)
    ELSE IF a.den = 0 THEN Zero
    ELSE [num |-> Sgn(a.num) * a.den, den |-> Abs(a.num)]

\* a / b.  0/0 = NaN, x/0 = +-Infinity.
Div(a, b) == Mul(a, Recip(b))

\* The sign of a for a not NaN.
Sign(a) == Sgn(a.num)

\* a > b: false when either is NaN.  With equal denominators (two infinities
\* included) the numerators decide.
Gt(a, b) ==
    /\ ~IsNaN(a) /\ ~IsNaN(b) /\ a # b
    /\ IF a.den = b.den THEN a.num > b.num ELSE Sign(Sub(a, b)) > 0

Lt(a, b) == Gt(b, a)

Ge(a, b) == ~IsNaN(a) /\ ~IsNaN(b) /\ (a = b \/ Gt(a, b))

Le(a, b) == Ge(b, a)

\* JavaScript truthiness of a number: 0 and NaN are falsy.
Truthy(a) == a.num # 0

\* a || b on numbers.
OrElse(a, b) == IF Truthy(a) THEN a ELSE b

\* Math.max / Math.min: NaN if either argument is NaN.
MathMax(a, b) == IF IsNaN(a) \/ IsNaN(b) THEN NaN ELSE IF Gt(b, a) THEN b ELSE a

MathMin(a, b) == IF IsNaN(a) \/ IsNaN(b) THEN NaN ELSE IF Lt(b, a) THEN b ELSE a

\* Math.floor of a finite number, as an integer.
Floor(a) == IF a.num >= 0 THEN a.num \div a.den ELSE -((-a.num + a.den - 1) \div a.den)

\* array.reduce((sum, x) => sum + x, 0) over a sequence of numbers.
RECURSIVE SumSeq(_)
SumSeq(s) == IF s = <<>> THEN Zero
             ELSE Add(SumSeq(SubSeq(s, 1, Len(s) - 1)), s[Len(s)])

\* array.filter(keep), keeping the order.
RECURSIVE SelectIdx(_, _)
SelectIdx(n, keep) ==
    IF n = 0 THEN <<>>
    ELSE IF keep[n] THEN Append(SelectIdx(n - 1, keep), n) ELSE SelectIdx(n - 1, keep)

----------------------------------------------------------------------------
(* Math.random().  A call draws its random numbers from a stream fixed by  *)
(* a seed the caller cannot observe; the k-th draw (k = 0, 1, ...) of a    *)
(* call is RandomValues[(seed + k) mod length].  The values span [0, 1):   *)
(* the least value 0 and values next to the upper end.                     *)

RandomValues == << Zero, Rat(1, 2), Rat(999, 1000) >>

Seeds == 0 .. (Len(RandomValues) - 1)

Random(seed, k) == RandomValues[((seed + k) % Len(RandomValues)) + 1]

----------------------------------------------------------------------------
(* Positions.  A position is the part of App's Position the engines read:  *)
(* ticker, shares, avgPrice, currentPrice (0: no live quote yet), sector.  *)

Pos(t, sec, sh, avg, cur) ==
    [ticker |-> t, sector |-> sec, shares |-> Num(sh),
     avgPrice |-> Num(avg), currentPrice |-> Num(cur)]

\* Array.prototype.sort(comparator), which is stable, as the sorted order of the
\* indices 1..n: after[e][x] says the comparator puts e after x (its result is
\* > 0; a NaN result counts as 0).  An index is placed before the first index
\* that must follow it.
RECURSIVE InsertSorted(_, _, _)
InsertSorted(perm, x, after) ==
    IF perm = <<>> THEN <<x>>
    ELSE IF after[perm[Len(perm)]][x]
         THEN Append(InsertSorted(SubSeq(perm, 1, Len(perm) - 1), x, after),
                     perm[Len(perm)])
         ELSE Append(perm, x)

RECURSIVE SortIdx(_, _)
SortIdx(n, after) ==
    IF n = 0 THEN <<>> ELSE InsertSorted(SortIdx(n - 1, after), n, after)

\* The array with elements f[1], ..., f[Len(f)].
AsArray(f) == SubSeq(f, 1, Len(f))

Permute(s, perm) == AsArray([k \in 1 .. Len(perm) |-> s[perm[k]]])

----------------------------------------------------------------------------
(* Risk Engine: riskAnalysis.ts                                            *)

\* Betas in hundredths.
BETA_MAP ==
    [AAPL |-> 120, MSFT |-> 90, NVDA |-> 175, TSLA |-> 200, AMZN |-> 115,
     GOOGL |-> 105, META |-> 135, NFLX |-> 125, AMD |-> 185, INTC |-> 85,
     CRM |-> 110, ORCL |-> 95, JPM |-> 115, BAC |-> 130, V |-> 95, MA |-> 90,
     JNJ |-> 60, PFE |-> 65, UNH |-> 80, XOM |-> 90, CVX |-> 85, KO |-> 55,
     WMT |-> 45, DIS |-> 110, NKE |-> 85, BTC |-> 150, ETH |-> 160,
     SPY |-> 100, VOO |-> 100, QQQ |-> 115]

\* BETA_MAP[ticker] || 1.0
BetaOf(ticker) ==
    IF ticker \in DOMAIN BETA_MAP
    THEN OrElse(Rat(BETA_MAP[ticker], 100), Num(1))
    ELSE Num(1)

\* Mutant of PositionValue: the fallback to avgPrice forgotten.
PositionValueWithoutFallback(pos) == Mul(pos.shares, pos.currentPrice)

\* shares * (currentPrice || avgPrice)
PositionValue(pos) == Mul(pos.shares, OrElse(pos.currentPrice, pos.avgPrice))

\* Mutant of TotalValue: the total cost basis instead of the market value.
TotalValueAtCost(ps) == SumSeq([i \in 1 .. Len(ps) |-> Mul(ps[i].shares, ps[i].avgPrice)])

\* positions.reduce((sum, p) => sum + p.shares * (p.currentPrice || p.avgPrice), 0)
TotalValue(ps) == SumSeq([i \in 1 .. Len(ps) |-> PositionValue(ps[i])])

\* Mutant of WeightOf: a fraction of the total instead of a percent.
WeightAsFraction(value, totalValue) == Div(value, totalValue)

\* (value / totalValue) * 100
WeightOf(value, totalValue) == Mul(Div(value, totalValue), Num(100))

\* Mutant of PositionRisk: the contribution not divided by 100.
PositionRiskUnscaled(pos, totalValue) ==
    [ticker |-> pos.ticker,
     weight |-> WeightOf(PositionValue(pos), totalValue),
     beta |-> BetaOf(pos.ticker),
     volatility |-> Mul(BetaOf(pos.ticker), Num(15)),
     contribution |-> Mul(WeightOf(PositionValue(pos), totalValue), BetaOf(pos.ticker))]

PositionRisk(pos, totalValue) ==
    LET weight == WeightOf(PositionValue(pos), totalValue)
        beta == BetaOf(pos.ticker)
    IN  [ticker |-> pos.ticker,
         weight |-> weight,
         beta |-> beta,
         volatility |-> Mul(beta, Num(15)),
         contribution |-> Div(Mul(weight, beta), Num(100))]

\* Mutant of SectorMap: a sector's value overwritten instead of added to.
RECURSIVE SectorMapOverwriting(_)
SectorMapOverwriting(ps) ==
    IF ps = <<>> THEN <<>>
    ELSE LET m == SectorMapOverwriting(SubSeq(ps, 1, Len(ps) - 1))
             pos == ps[Len(ps)]
             at == {i \in 1 .. Len(m) : m[i].sector = pos.sector}
         IN  IF at = {}
             THEN Append(m, [sector |-> pos.sector, value |-> PositionValue(pos)])
             ELSE [m EXCEPT ![CHOOSE k \in at : TRUE].value = PositionValue(pos)]

\* The Map sector -> value, as its entries in insertion order.
RECURSIVE SectorMap(_)
SectorMap(ps) ==
    IF ps = <<>> THEN <<>>
    ELSE LET m == SectorMap(SubSeq(ps, 1, Len(ps) - 1))
             pos == ps[Len(ps)]
             value == PositionValue(pos)
             at == {i \in 1 .. Len(m) : m[i].sector = pos.sector}
         IN  IF at = {}
             THEN Append(m, [sector |-> pos.sector, value |-> Add(Zero, value)])
             ELSE LET i == CHOOSE k \in at : TRUE
                  IN  [m EXCEPT ![i].value = Add(OrElse(m[i].value, Zero), value)]

\* Mutant of RiskLevel: the thresholds included in the upper tier.
RiskLevelInclusive(weight) ==
    IF Ge(weight, Num(60)) THEN "extreme"
    ELSE IF Ge(weight, Num(40)) THEN "high"
    ELSE IF Ge(weight, Num(25)) THEN "moderate"
    ELSE "low"

RiskLevel(weight) ==
    IF Gt(weight, Num(60)) THEN "extreme"
    ELSE IF Gt(weight, Num(40)) THEN "high"
    ELSE IF Gt(weight, Num(25)) THEN "moderate"
    ELSE "low"

\* Mutant of WeightAfter: the sectors sorted by ascending weight.
WeightAfterAscending(a, b) == Gt(Sub(a.weight, b.weight), Zero)

\* The comparator (a, b) => b.weight - a.weight is > 0.
WeightAfter(a, b) == Gt(Sub(b.weight, a.weight), Zero)

SectorConcentration(ps, totalValue) ==
    LET m == SectorMap(ps)
        entries == AsArray([i \in 1 .. Len(m) |->
                      LET weight == WeightOf(m[i].value, totalValue)
                      IN  [sector |-> m[i].sector, weight |-> weight,
                           riskLevel |-> RiskLevel(weight)]])
        after == [i \in 1 .. Len(m) |-> [j \in 1 .. Len(m) |->
                    WeightAfter(entries[i], entries[j])]]
    IN  Permute(entries, SortIdx(Len(m), after))

\* positions.find(p => p.ticker === t)?.sector
SectorOfTicker(ps, t) ==
    LET at == {i \in 1 .. Len(ps) : ps[i].ticker = t}
    IN  ps[CHOOSE i \in at : \A k \in at : i <= k].sector

\* The number of Math.random() draws made before entry (i, j) of the matrix:
\* one per off-diagonal entry, row by row.
DrawsBefore(n, i, j) == (i - 1) * (n - 1) + (IF j > i THEN j - 2 ELSE j - 1)

CorrelationEntry(ps, i, j, seed) ==
    IF i = j THEN Num(1)
    ELSE LET s1 == SectorOfTicker(ps, ps[i].ticker)
             s2 == SectorOfTicker(ps, ps[j].ticker)
             r == Random(seed, DrawsBefore(Len(ps), i, j))
         IN  IF s1 = s2 THEN Add(Rat(7, 10), Mul(r, Rat(2, 10)))
             ELSE Add(Rat(3, 10), Mul(r, Rat(3, 10)))

Correlations(ps, seed) ==
    [tickers |-> [i \in 1 .. Len(ps) |-> ps[i].ticker],
     matrix |-> [i \in 1 .. Len(ps) |->
                   [j \in 1 .. Len(ps) |-> CorrelationEntry(ps, i, j, seed)]]]

SharpeRatio(portfolioBeta, portfolioVolatility) ==
    IF Gt(portfolioVolatility, Zero)
    THEN Div(Sub(Mul(portfolioBeta, Num(10)), Num(2)), portfolioVolatility)
    ELSE Zero

RiskMetricsFrom(ps, seed, totalValue, positionRisks, portfolioBeta, portfolioVolatility) ==
    [portfolioBeta |-> portfolioBeta,
     portfolioVolatility |-> portfolioVolatility,
     sharpeRatio |-> SharpeRatio(portfolioBeta, portfolioVolatility),
     maxDrawdown |-> Mul(Neg(portfolioVolatility), Rat(15, 10)),
     var95 |-> Mul(Mul(totalValue, Div(portfolioVolatility, Num(100))), Rat(165, 100)),
     positionRisks |-> positionRisks,
     sectorConcentration |-> SectorConcentration(ps, totalValue),
     correlations |-> Correlations(ps, seed)]

\* positionRisks.reduce((sum, pr) => sum + pr.contribution, 0)
PortfolioBeta(positionRisks) ==
    SumSeq([i \in 1 .. Len(positionRisks) |-> positionRisks[i].contribution])

RiskMetricsOf(ps, seed, totalValue, positionRisks, portfolioBeta) ==
    RiskMetricsFrom(ps, seed, totalValue, positionRisks, portfolioBeta,
                    Mul(portfolioBeta, Num(15)))

RiskMetricsWith(ps, seed, totalValue, positionRisks) ==
    RiskMetricsOf(ps, seed, totalValue, positionRisks, PortfolioBeta(positionRisks))

PositionRisks(ps, totalValue) ==
    AsArray([i \in 1 .. Len(ps) |-> PositionRisk(ps[i], totalValue)])

RiskMetricsFor(ps, seed, totalValue) ==
    RiskMetricsWith(ps, seed, totalValue, PositionRisks(ps, totalValue))

calculateRiskMetrics(ps, seed) ==
    IF Len(ps) = 0
    THEN [portfolioBeta |-> Zero, portfolioVolatility |-> Zero, sharpeRatio |-> Zero,
          maxDrawdown |-> Zero, var95 |-> Zero, positionRisks |-> <<>>,
          sectorConcentration |-> <<>>,
          correlations |-> [tickers |-> <<>>, matrix |-> <<>>]]
    ELSE RiskMetricsFor(ps, seed, TotalValue(ps))

----------------------------------------------------------------------------
(* Tax Engine: taxReporting.ts                                             *)

\* (currentPrice - avgPrice) * shares
GainOf(pos) == Mul(Sub(pos.currentPrice, pos.avgPrice), pos.shares)

\* Mutant of Priced: positions without a quote counted at price 0.
PricedOrNot(pos) == TRUE

\* The positions calculateUnrealizedGains does not skip: !pos.currentPrice is false.
Priced(pos) == Truthy(pos.currentPrice)

calculateUnrealizedGains(ps) ==
    LET counted == SelectIdx(Len(ps), [i \in 1 .. Len(ps) |-> Priced(ps[i])])
        listed == SelectIdx(Len(ps), [i \in 1 .. Len(ps) |->
                      Priced(ps[i]) /\ GainOf(ps[i]) # Zero])
    IN  [shortTerm |-> <<>>,
         longTerm |-> [k \in 1 .. Len(listed) |->
                         [ticker |-> ps[listed[k]].ticker,
                          gain |-> GainOf(ps[listed[k]]),
                          shares |-> ps[listed[k]].shares]],
         totalUnrealizedGain |->
             SumSeq([k \in 1 .. Len(counted) |-> GainOf(ps[counted[k]])])]

\* (avgPrice - currentPrice) * shares
LossOf(pos) == Mul(Sub(pos.avgPrice, pos.currentPrice), pos.shares)

\* Mutant of IsLoss: the check for a live quote forgotten.
IsLossWithoutQuoteCheck(pos) == Gt(LossOf(pos), Zero)

\* The positions findTaxLossOpportunities reports.
IsLoss(pos) == Truthy(pos.currentPrice) /\ Gt(LossOf(pos), Zero)

\* Mutant of DaysHeld: a holding period that starts at 0 days.
DaysHeldFromZero(r) == Floor(Mul(r, Num(365)))

\* Math.floor(Math.random() * 365) + 30
DaysHeld(r) == Floor(Mul(r, Num(365))) + 30

\* Mutant of Recommendation: a loss of exactly 3000 harvested.
RecommendationInclusive(daysHeld, loss) ==
    IF daysHeld < 30 THEN "avoid"
    ELSE IF Ge(loss, Num(3000)) THEN "harvest"
    ELSE "hold"

Recommendation(daysHeld, loss) ==
    IF daysHeld < 30 THEN "avoid"
    ELSE IF Gt(loss, Num(10000)) THEN "harvest"
    ELSE IF Gt(loss, Num(3000)) THEN "harvest"
    ELSE "hold"

\* The reasoning text, by its rule; the numbers it quotes are in the record.
Reasoning(daysHeld, loss) ==
    IF daysHeld < 30 THEN "wait to avoid wash sale rules"
    ELSE IF Gt(loss, Num(10000)) THEN "significant loss can offset gains"
    ELSE IF Gt(loss, Num(3000)) THEN "moderate loss worth harvesting"
    ELSE "loss too small to justify transaction costs"

\* The comparator (a, b) => b.currentLoss - a.currentLoss is > 0.
LossAfter(a, b) == Gt(Sub(b.currentLoss, a.currentLoss), Zero)

\* The random numbers are draws first, first + 1, ... of the seed's stream,
\* one per reported position, in input order.
findTaxLossOpportunities(ps, seed, first) ==
    LET found == SelectIdx(Len(ps), [i \in 1 .. Len(ps) |-> IsLoss(ps[i])])
        opportunities ==
            [k \in 1 .. Len(found) |->
               LET pos == ps[found[k]]
                   loss == LossOf(pos)
                   daysHeld == DaysHeld(Random(seed, first + k - 1))
               IN  [ticker |-> pos.ticker,
                    currentLoss |-> loss,
                    daysHeld |-> daysHeld,
                    recommendation |-> Recommendation(daysHeld, loss),
                    reasoning |-> Reasoning(daysHeld, loss)]]
        after == [i \in 1 .. Len(found) |-> [j \in 1 .. Len(found) |->
                    LossAfter(opportunities[i], opportunities[j])]]
    IN  Permute(opportunities, SortIdx(Len(found), after))

\* Mutant of TaxRate: an income at a threshold taxed at the upper rate.
TaxRateInclusive(totalIncome) ==
    IF Ge(totalIncome, Num(500000)) THEN Rat(238, 1000)
    ELSE IF Ge(totalIncome, Num(200000)) THEN Rat(20, 100)
    ELSE IF Ge(totalIncome, Num(40000)) THEN Rat(15, 100)
    ELSE Zero

TaxRate(totalIncome) ==
    IF Gt(totalIncome, Num(500000)) THEN Rat(238, 1000)
    ELSE IF Gt(totalIncome, Num(200000)) THEN Rat(20, 100)
    ELSE IF Gt(totalIncome, Num(40000)) THEN Rat(15, 100)
    ELSE Zero

\* opportunities.filter(o => o.recommendation === 'harvest')
Harvestable(opportunities) ==
    Permute(opportunities,
            SelectIdx(Len(opportunities), [i \in 1 .. Len(opportunities) |->
                          opportunities[i].recommendation = "harvest"]))

HarvestableLosses(opportunities) ==
    LET h == Harvestable(opportunities)
    IN  SumSeq([i \in 1 .. Len(h) |-> h[i].currentLoss])

TaxEstimateFrom(totalUnrealizedGain, taxRate, opportunities) ==
    [unrealizedGains |-> totalUnrealizedGain,
     estimatedTaxIfSoldNow |-> Mul(totalUnrealizedGain, taxRate),
     effectiveTaxRate |-> Mul(taxRate, Num(100)),
     potentialSavings |-> Mul(HarvestableLosses(opportunities), taxRate)]

TaxEstimateOf(totalUnrealizedGain, otherIncome, opportunities) ==
    TaxEstimateFrom(totalUnrealizedGain,
                    TaxRate(Add(otherIncome, totalUnrealizedGain)),
                    opportunities)

calculateTaxEstimate(ps, otherIncome, seed, first) ==
    TaxEstimateOf(calculateUnrealizedGains(ps).totalUnrealizedGain, otherIncome,
                  findTaxLossOpportunities(ps, seed, first))

\* The default of calculateTaxEstimate's otherIncome.
DefaultOtherIncome == Num(100000)

\* The number of positions findTaxLossOpportunities reports: its draws.
LossCount(ps) == Len(SelectIdx(Len(ps), [i \in 1 .. Len(ps) |-> IsLoss(ps[i])]))

TaxSummaryFrom(totalUnrealizedGain, estimate, opportunities) ==
    [unrealizedGain |-> totalUnrealizedGain,
     estimatedTax |-> estimate.estimatedTaxIfSoldNow,
     effectiveRate |-> estimate.effectiveTaxRate,
     potentialSavings |->
         Div(Mul(HarvestableLosses(opportunities), estimate.effectiveTaxRate),
             Num(100)),
     harvestableLosses |-> Harvestable(opportunities),
     totalOpportunities |-> Len(opportunities)]

\* calculateTaxEstimate draws first; findTaxLossOpportunities is then called
\* again and draws on.
getTaxSummary(ps, seed) ==
    TaxSummaryFrom(calculateUnrealizedGains(ps).totalUnrealizedGain,
                   calculateTaxEstimate(ps, DefaultOtherIncome, seed, 0),
                   findTaxLossOpportunities(ps, seed, LossCount(ps)))

----------------------------------------------------------------------------
(* Advisory Engine: aiAdvisor.ts (analyzePortfolio, runScenarioAnalysis)   *)
(* Texts are modelled by the rule that writes them and the numbers they    *)
(* quote, formatted as toFixed formats them.                               *)

\* a.toFixed(digits) for a >= 0, scale = 10^digits: the nearest multiple of
\* 1/scale (NaN and the infinities print as themselves).
ToFixed(a, scale) ==
    IF ~IsFinite(a) THEN a
    ELSE Rat(Floor(Add(Mul(a, Num(scale)), Rat(1, 2))), scale)

\* Math.abs
MathAbs(a) == [num |-> Abs(a.num), den |-> a.den]

\* Mutant of PnlPercent: the P&L as a fraction, not a percent.
PnlFraction(pos) == Div(Sub(pos.currentPrice, pos.avgPrice), pos.avgPrice)

\* ((currentPrice - avgPrice) / avgPrice) * 100
PnlPercent(pos) ==
    Mul(Div(Sub(pos.currentPrice, pos.avgPrice), pos.avgPrice), Num(100))

EmptyAnalysis ==
    [overallHealth |-> "critical",
     healthScore |-> Zero,
     strengths |-> <<>>,
     weaknesses |-> << [text |-> "Portfolio is empty", subject |-> "", value |-> Zero] >>,
     recommendations |->
        << [type |-> "alert", ticker |-> "PORTFOLIO", confidence |-> 100,
            urgency |-> "high", rule |-> "empty", quoted |-> <<>>] >>,
     scenarioAnalysis |-> <<>>]

\* 1. diversification and top-sector concentration
DiversificationFindings(riskMetrics) ==
    LET sectorCount == Len(riskMetrics.sectorConcentration)
        few == sectorCount < 3
        heavy == /\ sectorCount > 0
                 /\ Gt(riskMetrics.sectorConcentration[1].weight, Num(50))
        topSector == riskMetrics.sectorConcentration[1]
    IN  [strengths |-> IF few THEN <<>> ELSE << "Good sector diversification" >>,
         weaknesses |->
            (IF few THEN << [text |-> "Poor sector diversification",
                             subject |-> "", value |-> Zero] >>
             ELSE <<>>)
            \o (IF heavy THEN << [text |-> "Heavy concentration",
                                  subject |-> topSector.sector,
                                  value |-> ToFixed(topSector.weight, 10)] >>
                ELSE <<>>),
         recommendations |->
            (IF few THEN << [type |-> "rebalance", ticker |-> "PORTFOLIO",
                             confidence |-> 90, urgency |-> "high",
                             rule |-> "diversification",
                             quoted |-> << Num(sectorCount) >>] >>
             ELSE <<>>)
            \o (IF heavy THEN << [type |-> "rebalance", ticker |-> topSector.sector,
                                  confidence |-> 85, urgency |-> "medium",
                                  rule |-> "concentration",
                                  quoted |-> << ToFixed(topSector.weight, 10) >>] >>
                ELSE <<>>)]

\* 2. position sizing: positionRisks.filter(p => p.weight > 20)
SizingFindings(riskMetrics) ==
    LET prs == riskMetrics.positionRisks
        largePositions ==
            Permute(prs, SelectIdx(Len(prs), [i \in 1 .. Len(prs) |->
                                      Gt(prs[i].weight, Num(20))]))
    IN  [strengths |-> <<>>,
         weaknesses |-> [k \in 1 .. Len(largePositions) |->
                           [text |-> "Oversized position",
                            subject |-> largePositions[k].ticker,
                            value |-> ToFixed(largePositions[k].weight, 10)]],
         recommendations |-> [k \in 1 .. Len(largePositions) |->
                           [type |-> "rebalance", ticker |-> largePositions[k].ticker,
                            confidence |-> 80, urgency |-> "medium",
                            rule |-> "sizing", quoted |-> <<>>]]]

\* 3. beta
BetaFindings(riskMetrics) ==
    LET beta == riskMetrics.portfolioBeta
    IN  IF Gt(beta, Rat(13, 10))
        THEN [strengths |-> <<>>,
              weaknesses |-> << [text |-> "High portfolio beta increases volatility",
                                 subject |-> "", value |-> Zero] >>,
              recommendations |->
                 << [type |-> "rebalance", ticker |-> "PORTFOLIO", confidence |-> 75,
                     urgency |-> "medium", rule |-> "beta",
                     quoted |-> << ToFixed(beta, 100),
                                   ToFixed(Sub(Mul(beta, Num(100)), Num(100)), 1) >>] >>]
        ELSE IF Lt(beta, Rat(8, 10))
        THEN [strengths |-> << "Defensive portfolio with low market correlation" >>,
              weaknesses |-> <<>>, recommendations |-> <<>>]
        ELSE [strengths |-> <<>>, weaknesses |-> <<>>, recommendations |-> <<>>]

\* 4. one position's buy/sell signals
SignalFindings(pos) ==
    IF ~Truthy(pos.currentPrice)
    THEN [strengths |-> <<>>, weaknesses |-> <<>>, recommendations |-> <<>>]
    ELSE LET pnl == PnlPercent(pos)
             win == Gt(pnl, Num(50))
             lose == Lt(pnl, Num(-30))
         IN  [strengths |-> <<>>,
              weaknesses |->
                 IF lose THEN << [text |-> "showing significant losses",
                                  subject |-> pos.ticker, value |-> Zero] >>
                 ELSE <<>>,
              recommendations |->
                 (IF win THEN << [type |-> "sell", ticker |-> pos.ticker,
                                  confidence |-> 70, urgency |-> "low",
                                  rule |-> "take-profit",
                                  quoted |-> << ToFixed(pnl, 10) >>] >>
                  ELSE <<>>)
                 \o (IF lose THEN << [type |-> "sell", ticker |-> pos.ticker,
                                      confidence |-> 75, urgency |-> "high",
                                      rule |-> "stop-loss",
                                      quoted |-> << ToFixed(MathAbs(pnl), 10) >>] >>
                     ELSE <<>>)]

\* The findings of a rule appended to those before it.
Join(f, g) ==
    [strengths |-> f.strengths \o g.strengths,
     weaknesses |-> f.weaknesses \o g.weaknesses,
     recommendations |-> f.recommendations \o g.recommendations]

\* positions.forEach(pos => ...) of rule 4
RECURSIVE AllSignalFindings(_)
AllSignalFindings(ps) ==
    IF ps = <<>> THEN [strengths |-> <<>>, weaknesses |-> <<>>, recommendations |-> <<>>]
    ELSE Join(AllSignalFindings(SubSeq(ps, 1, Len(ps) - 1)), SignalFindings(ps[Len(ps)]))

HealthScore(nStrengths, nWeaknesses, portfolioBeta) ==
    LET raw == Sub(Num(70 + nStrengths * 5 - nWeaknesses * 8),
                   Mul(Sub(portfolioBeta, Num(1)), Num(10)))
    IN  MathMax(Zero, MathMin(Num(100), raw))

\* Mutant of OverallHealth: 'excellent' from 75.
OverallHealthFromSeventyFive(healthScore) ==
    IF Ge(healthScore, Num(75)) THEN "excellent"
    ELSE IF Ge(healthScore, Num(65)) THEN "good"
    ELSE IF Ge(healthScore, Num(50)) THEN "fair"
    ELSE IF Ge(healthScore, Num(30)) THEN "poor"
    ELSE "critical"

OverallHealth(healthScore) ==
    IF Ge(healthScore, Num(80)) THEN "excellent"
    ELSE IF Ge(healthScore, Num(65)) THEN "good"
    ELSE IF Ge(healthScore, Num(50)) THEN "fair"
    ELSE IF Ge(healthScore, Num(30)) THEN "poor"
    ELSE "critical"

urgencyOrder == [critical |-> 0, high |-> 1, medium |-> 2, low |-> 3]

\* The comparator (a, b) => urgencyOrder[a.urgency] - urgencyOrder[b.urgency] is > 0.
UrgencyAfter(a, b) == urgencyOrder[a.urgency] - urgencyOrder[b.urgency] > 0

\* Mutant of SortByUrgency: the recommendations left in production order.
KeepProductionOrder(recommendations) == recommendations

SortByUrgency(recommendations) ==
    LET n == Len(recommendations)
        after == [i \in 1 .. n |-> [j \in 1 .. n |->
                    UrgencyAfter(recommendations[i], recommendations[j])]]
    IN  Permute(recommendations, SortIdx(n, after))

\* Mutant of runScenarioAnalysis: the tech boom applied to every sector.
runScenarioAnalysisOnAllSectors(ps, currentValue) ==
    LET techBoomChange == Mul(TotalValue(ps), Rat(40, 100))
    IN  << [name |-> "Bull Market",
            portfolioValue |-> Mul(currentValue, Rat(120, 100)),
            change |-> Mul(currentValue, Rat(20, 100)),
            changePercent |-> Num(20)],
           [name |-> "Bear Market",
            portfolioValue |-> Mul(currentValue, Rat(80, 100)),
            change |-> Mul(Neg(currentValue), Rat(20, 100)),
            changePercent |-> Num(-20)],
           [name |-> "Recession",
            portfolioValue |-> Mul(currentValue, Rat(65, 100)),
            change |-> Mul(Neg(currentValue), Rat(35, 100)),
            changePercent |-> Num(-35)],
           [name |-> "AI/Tech Boom",
            portfolioValue |-> Add(currentValue, techBoomChange),
            change |-> techBoomChange,
            changePercent |-> Mul(Div(techBoomChange, currentValue), Num(100))] >>

runScenarioAnalysis(ps, currentValue) ==
    LET tech == SelectIdx(Len(ps), [i \in 1 .. Len(ps) |-> ps[i].sector = "Technology"])
        techValue == SumSeq([k \in 1 .. Len(tech) |-> PositionValue(ps[tech[k]])])
        techBoomChange == Mul(techValue, Rat(40, 100))
    IN  << [name |-> "Bull Market",
            portfolioValue |-> Mul(currentValue, Rat(120, 100)),
            change |-> Mul(currentValue, Rat(20, 100)),
            changePercent |-> Num(20)],
           [name |-> "Bear Market",
            portfolioValue |-> Mul(currentValue, Rat(80, 100)),
            change |-> Mul(Neg(currentValue), Rat(20, 100)),
            changePercent |-> Num(-20)],
           [name |-> "Recession",
            portfolioValue |-> Mul(currentValue, Rat(65, 100)),
            change |-> Mul(Neg(currentValue), Rat(35, 100)),
            changePercent |-> Num(-35)],
           [name |-> "AI/Tech Boom",
            portfolioValue |-> Add(currentValue, techBoomChange),
            change |-> techBoomChange,
            changePercent |-> Mul(Div(techBoomChange, currentValue), Num(100))] >>

\* Rules 1 to 4 in order.
Findings(ps, riskMetrics) ==
    Join(Join(Join(DiversificationFindings(riskMetrics), SizingFindings(riskMetrics)),
              BetaFindings(riskMetrics)),
         AllSignalFindings(ps))

\* Steps 5 and 6 and the returned record.
Conclude(ps, found, healthScore, totalValue) ==
    [overallHealth |-> OverallHealth(healthScore),
     healthScore |-> healthScore,
     strengths |-> found.strengths,
     weaknesses |-> found.weaknesses,
     recommendations |-> SortByUrgency(found.recommendations),
     scenarioAnalysis |-> runScenarioAnalysis(ps, totalValue)]

AnalysisFrom(ps, found, portfolioBeta) ==
    Conclude(ps, found,
             HealthScore(Len(found.strengths), Len(found.weaknesses), portfolioBeta),
             TotalValue(ps))

AnalysisWith(ps, riskMetrics) ==
    AnalysisFrom(ps, Findings(ps, riskMetrics), riskMetrics.portfolioBeta)

\* Mutant of analyzePortfolio: no short-circuit on the empty list.
analyzePortfolioWithoutShortCircuit(ps, seed) ==
    AnalysisWith(ps, calculateRiskMetrics(ps, seed))

analyzePortfolio(ps, seed) ==
    IF Len(ps) = 0 THEN EmptyAnalysis
    ELSE AnalysisWith(ps, calculateRiskMetrics(ps, seed))

----------------------------------------------------------------------------
(* The state machine.  positions is the Position Store's list.  A render   *)
(* of the page calls an engine on it; out holds the call's name, its       *)
(* otherIncome argument and the value it returned, until the render is     *)
(* over (no engine keeps anything between calls).  The engines are applied *)
(* to every list of at most MaxPositions positions drawn from              *)
(* PositionChoices.                                                        *)

MaxPositions == 3

\* ticker, sector, shares, avgPrice, currentPrice:
\*   no live quote; a loss of exactly 3000 (-30%); a loss above 10000 under a
\*   ticker held in another sector too; a loss of 4000 (-40%); a gain of
\*   exactly +50%; a gain of +60% on a high-beta ticker; a ticker without a
\*   beta at its cost price; a position of 0 shares quoted below its cost; a
\*   quick-added position (shares 0, avgPrice 0) that has received a quote.
PositionChoices ==
    { Pos("AAPL", "Technology", 100, 100, 0),
      Pos("AAPL", "Technology", 100, 100, 70),
      Pos("AAPL", "Consumer", 100, 200, 70),
      Pos("WMT", "Consumer", 100, 100, 60),
      Pos("WMT", "Consumer", 10, 100, 150),
      Pos("TSLA", "Energy", 10, 100, 160),
      Pos("ZZZ", "Energy", 10, 100, 100),
      Pos("ZZZ", "Energy", 0, 100, 90),
      Pos("BTC", "Crypto", 0, 0, 50) }

OtherIncomeChoices ==
    { Zero, Num(40000), DefaultOtherIncome, Num(200000), Num(500000) }

PositionLists ==
    UNION { [1 .. n -> PositionChoices] : n \in 0 .. MaxPositions }

NoCall == [op |-> "none", otherIncome |-> Zero, val |-> <<>>]

\* The state of each service before its first call.
MaxCalls == 2

IdleCall ==
    [pc |-> "idle", symbol |-> "", cached |-> <<>>, requests |-> <<>>,
     finnhub |-> <<>>, alpha |-> <<>>, result |-> <<>>]

ClockAtRest == now = 0

PriceAtRest ==
    /\ priceCache = [k \in {} |-> <<>>]
    /\ priceCalls = [c \in 1 .. MaxCalls |-> IdleCall]
    /\ everCached = {}

IdleStockCall ==
    [pc |-> "idle", symbol |-> "", cached |-> <<>>, wakeAt |-> 0,
     response |-> <<>>, result |-> <<>>]

LimiterAtRest ==
    /\ alphaCache = [k \in {} |-> <<>>]
    /\ lastRequestTime = 0
    /\ consecutiveErrors = 0
    /\ stockCalls = [c \in 1 .. MaxCalls |-> IdleStockCall]

HistoryAtRest ==
    /\ history = <<>>
    /\ clockHours = 0
    /\ saves = 0

TasksAtRest ==
    /\ tasks = <<>>
    /\ templates = <<>>
    /\ taskNow = 0
    /\ today = 1
    /\ generations = 0

ManagerAtRest ==
    /\ storedPortfolios = <<>>
    /\ storedActive = <<>>

MaxRefreshes == 1

IdleRefresh ==
    [pc |-> "idle", snapshot |-> <<>>, next |-> 0, quotes |-> <<>>,
     delivered |-> {}]

StoreAtRest ==
    /\ market = [t \in {"AAPL", "MSFT"} |-> 1]
    /\ refreshes = [r \in 1 .. MaxRefreshes |-> IdleRefresh]
    /\ csvImport = <<>>

EnginesAtRest ==
    /\ positions = <<>>
    /\ out = NoCall

\* Finnhub streaming as the module is loaded: no socket, ws null, no timer.
SocketAtRest ==
    /\ sockets = <<>>
    /\ ws = <<>>
    /\ reconnectAttempts = 0
    /\ timers = 0
    /\ subscribedSymbols = {}
    /\ released = FALSE
    /\ opened = FALSE
    /\ scheduledSinceOpen = 0
    /\ lastClose = "none"

\* No tax figure computed in binary64 yet.
SavingsAtRest ==
    /\ estimated = <<>>
    /\ summarised = <<>>

\* Every service but one at rest.
ServicesAtRestBut(service) ==
    /\ IF service = "price" THEN TRUE ELSE PriceAtRest
    /\ IF service = "limiter" THEN TRUE ELSE LimiterAtRest
    /\ IF service = "history" THEN TRUE ELSE HistoryAtRest
    /\ IF service = "tasks" THEN TRUE ELSE TasksAtRest
    /\ IF service = "manager" THEN TRUE ELSE ManagerAtRest
    /\ IF service = "store" THEN TRUE ELSE StoreAtRest
    /\ IF service = "socket" THEN TRUE ELSE SocketAtRest
    /\ IF service = "savings" THEN TRUE ELSE SavingsAtRest

ServicesAtRest == ServicesAtRestBut("engines")

Init ==
    /\ positions \in PositionLists
    /\ out = NoCall
    /\ ClockAtRest
    /\ ServicesAtRest

CallCalculateRiskMetrics ==
    /\ out = NoCall
    /\ \E seed \in Seeds :
         out' = [op |-> "calculateRiskMetrics", otherIncome |-> Zero,
                 val |-> calculateRiskMetrics(positions, seed)]
    /\ UNCHANGED <<positions, serviceVars>>

CallCalculateUnrealizedGains ==
    /\ out = NoCall
    /\ out' = [op |-> "calculateUnrealizedGains", otherIncome |-> Zero,
               val |-> calculateUnrealizedGains(positions)]
    /\ UNCHANGED <<positions, serviceVars>>

\* Mutant of CallFindTaxLossOpportunities: the sort by loss done on the
\* input array.
CallFindTaxLossOpportunitiesSortingInput ==
    /\ out = NoCall
    /\ \E seed \in Seeds :
         out' = [op |-> "findTaxLossOpportunities", otherIncome |-> Zero,
                 val |-> findTaxLossOpportunities(positions, seed, 0)]
    /\ positions' =
          Permute(positions,
                  SortIdx(Len(positions),
                          [i \in 1 .. Len(positions) |-> [j \in 1 .. Len(positions) |->
                              Gt(LossOf(positions[j]), LossOf(positions[i]))]]))
    /\ UNCHANGED serviceVars

CallFindTaxLossOpportunities ==
    /\ out = NoCall
    /\ \E seed \in Seeds :
         out' = [op |-> "findTaxLossOpportunities", otherIncome |-> Zero,
                 val |-> findTaxLossOpportunities(positions, seed, 0)]
    /\ UNCHANGED <<positions, serviceVars>>

CallCalculateTaxEstimate ==
    /\ out = NoCall
    /\ \E seed \in Seeds :
         LET totalUnrealizedGain ==
                 calculateUnrealizedGains(positions).totalUnrealizedGain
             opportunities == findTaxLossOpportunities(positions, seed, 0)
         IN  \E otherIncome \in OtherIncomeChoices :
                out' = [op |-> "calculateTaxEstimate", otherIncome |-> otherIncome,
                        val |-> TaxEstimateOf(totalUnrealizedGain, otherIncome,
                                              opportunities)]
    /\ UNCHANGED <<positions, serviceVars>>

CallGetTaxSummary ==
    /\ out = NoCall
    /\ \E seed \in Seeds :
         out' = [op |-> "getTaxSummary", otherIncome |-> DefaultOtherIncome,
                 val |-> getTaxSummary(positions, seed)]
    /\ UNCHANGED <<positions, serviceVars>>

CallAnalyzePortfolio ==
    /\ out = NoCall
    /\ \E seed \in Seeds :
         out' = [op |-> "analyzePortfolio", otherIncome |-> Zero,
                 val |-> analyzePortfolio(positions, seed)]
    /\ UNCHANGED <<positions, serviceVars>>

\* The render is over: the returned value is dropped.
RenderDone ==
    /\ out # NoCall
    /\ out' = NoCall
    /\ UNCHANGED <<positions, serviceVars>>

Next ==
    \/ CallCalculateRiskMetrics
    \/ CallCalculateUnrealizedGains
    \/ CallFindTaxLossOpportunities
    \/ CallCalculateTaxEstimate
    \/ CallGetTaxSummary
    \/ CallAnalyzePortfolio
    \/ RenderDone

Spec == Init /\ [][Next]_vars

----------------------------------------------------------------------------
(* Properties                                                              *)

Called(op) == out.op = op

Range(s) == {s[i] : i \in DOMAIN s}

\* Every number a RiskMetrics record holds.
RiskNumbers(m) ==
    {m.portfolioBeta, m.portfolioVolatility, m.sharpeRatio, m.maxDrawdown, m.var95}
    \cup UNION {{r.weight, r.beta, r.volatility, r.contribution} :
                  r \in Range(m.positionRisks)}
    \cup {c.weight : c \in Range(m.sectorConcentration)}
    \cup UNION {Range(row) : row \in Range(m.correlations.matrix)}

\* Every number a PortfolioAnalysis record holds (the per-position P&L percent
\* and the weights are the numbers its texts quote).
AnalysisNumbers(a) ==
    {a.healthScore}
    \cup UNION {{sc.portfolioValue, sc.change, sc.changePercent} :
                  sc \in Range(a.scenarioAnalysis)}
    \cup UNION {Range(r.quoted) : r \in Range(a.recommendations)}
    \cup {w.value : w \in Range(a.weaknesses)}

\* C1: calculateRiskMetrics and analyzePortfolio never divide by zero: every
\* number they return is finite, for every position list (total value 0 and
\* avgPrice 0 included).
C1_EveryNumberFinite ==
    /\ Called("calculateRiskMetrics") => \A x \in RiskNumbers(out.val) : IsFinite(x)
    /\ Called("analyzePortfolio") => \A x \in AnalysisNumbers(out.val) : IsFinite(x)

\* The positions without a live quote.
Unquoted(ps) == {i \in 1 .. Len(ps) : ps[i].currentPrice = Zero}

\* ps with currentPrice = avgPrice in the positions of S.
WithCostAsPrice(ps, S) ==
    [i \in 1 .. Len(ps) |->
       IF i \in S THEN [ps[i] EXCEPT !.currentPrice = ps[i].avgPrice] ELSE ps[i]]

\* C2: replacing currentPrice = 0 by currentPrice = avgPrice in any (non-empty)
\* subset of the positions leaves the output of the three engines unchanged
\* (the random numbers drawn being the same).
C2_CostStandsForMissingPrice ==
    \A S \in (SUBSET Unquoted(positions)) \ {{}} :
       LET qs == WithCostAsPrice(positions, S)
       IN  /\ Called("calculateRiskMetrics") =>
                \E seed \in Seeds : out.val = calculateRiskMetrics(qs, seed)
           /\ Called("calculateUnrealizedGains") =>
                out.val = calculateUnrealizedGains(qs)
           /\ Called("findTaxLossOpportunities") =>
                \E seed \in Seeds : out.val = findTaxLossOpportunities(qs, seed, 0)
           /\ Called("calculateTaxEstimate") =>
                \E seed \in Seeds :
                   out.val = calculateTaxEstimate(qs, out.otherIncome, seed, 0)
           /\ Called("analyzePortfolio") =>
                \E seed \in Seeds : out.val = analyzePortfolio(qs, seed)

\* C2's case: an engine has run on a list that holds a position without a
\* quote next to a quoted one.
C2_Witness ==
    /\ Called("analyzePortfolio")
    /\ \E i, j \in 1 .. Len(positions) :
          /\ positions[i].currentPrice = Zero
          /\ positions[i].avgPrice # Zero
          /\ positions[j].currentPrice # Zero

\* The entries of findTaxLossOpportunities' result are those of the positions
\* of the set losers: each such position has an entry with its ticker and its
\* loss (avgPrice - currentPrice) * shares > 0, each entry is of such a
\* position, and there are as many entries as positions.
EntriesAreLossesOf(losers) ==
    /\ Len(out.val) = Cardinality(losers)
    /\ \A i \in losers : \E k \in 1 .. Len(out.val) :
          /\ out.val[k].ticker = positions[i].ticker
          /\ out.val[k].currentLoss =
                Mul(Sub(positions[i].avgPrice, positions[i].currentPrice),
                    positions[i].shares)
          /\ Gt(out.val[k].currentLoss, Zero)
    /\ \A k \in 1 .. Len(out.val) : \E i \in losers :
          /\ out.val[k].ticker = positions[i].ticker
          /\ out.val[k].currentLoss =
                Mul(Sub(positions[i].avgPrice, positions[i].currentPrice),
                    positions[i].shares)

\* C3 as stated: findTaxLossOpportunities returns an entry for every position
\* with currentPrice < avgPrice and none for any other.
C3_EveryPositionBelowCostListed ==
    Called("findTaxLossOpportunities") =>
       EntriesAreLossesOf({i \in 1 .. Len(positions) :
                             Lt(positions[i].currentPrice, positions[i].avgPrice)})

\* C3 amended: findTaxLossOpportunities returns an entry for every position
\* that has a live quote (currentPrice not 0), shares > 0 and
\* currentPrice < avgPrice, and none for any other position.
C3_QuotedPositionsBelowCostListed ==
    Called("findTaxLossOpportunities") =>
       EntriesAreLossesOf({i \in 1 .. Len(positions) :
                             /\ positions[i].currentPrice # Zero
                             /\ Gt(positions[i].shares, Zero)
                             /\ Lt(positions[i].currentPrice, positions[i].avgPrice)})

\* C3's case: the result lists a loss and leaves out a position that has no
\* quote yet.
C3_Witness ==
    /\ Called("findTaxLossOpportunities")
    /\ Len(out.val) >= 1
    /\ Len(out.val) < Len(positions)
    /\ \E i \in 1 .. Len(positions) :
          positions[i].currentPrice = Zero /\ Gt(positions[i].avgPrice, Zero)

\* shares times currentPrice, or times avgPrice when currentPrice is 0.
ValueAtQuoteOrCost(pos) ==
    IF pos.currentPrice = Zero THEN Mul(pos.shares, pos.avgPrice)
    ELSE Mul(pos.shares, pos.currentPrice)

TotalAtQuoteOrCost(ps) ==
    SumSeq([i \in 1 .. Len(ps) |-> ValueAtQuoteOrCost(ps[i])])

\* calculateRiskMetrics has run on a non-empty list of total value > 0.
RiskOfValuedList ==
    /\ Called("calculateRiskMetrics")
    /\ Len(positions) > 0
    /\ Gt(TotalAtQuoteOrCost(positions), Zero)

\* C4: on a non-empty list with totalValue > 0, positionRisks has one entry
\* per position, in input order, whose weight is the position's value as a
\* percent of totalValue, and the weights sum to 100.
C4_WeightsArePercentOfTotal ==
    RiskOfValuedList =>
       LET prs == out.val.positionRisks
       IN  /\ Len(prs) = Len(positions)
           /\ \A i \in 1 .. Len(positions) :
                 /\ prs[i].ticker = positions[i].ticker
                 /\ Mul(prs[i].weight, TotalAtQuoteOrCost(positions)) =
                       Mul(Num(100), ValueAtQuoteOrCost(positions[i]))
           /\ SumSeq([i \in 1 .. Len(prs) |-> prs[i].weight]) = Num(100)

\* C4's case: the list mixes a position valued at cost (no quote) with a
\* quoted one of another weight.
C4_Witness ==
    /\ RiskOfValuedList
    /\ Len(positions) >= 2
    /\ \E i, j \in 1 .. Len(positions) :
          /\ positions[i].currentPrice = Zero
          /\ positions[j].currentPrice # Zero
          /\ Gt(out.val.positionRisks[i].weight, out.val.positionRisks[j].weight)
          /\ Gt(out.val.positionRisks[j].weight, Zero)

\* The sum of the positionRisks weights of the positions in a sector.
WeightInSector(sector) ==
    LET in == SelectIdx(Len(positions),
                        [i \in 1 .. Len(positions) |-> positions[i].sector = sector])
    IN  SumSeq([k \in 1 .. Len(in) |-> out.val.positionRisks[in[k]].weight])

\* C5: on a non-empty list with totalValue > 0, sectorConcentration has one
\* entry per distinct sector, each weight is the sum of the positionRisks
\* weights of the sector's positions, and the sector weights sum to 100.
C5_SectorsPartitionTheTotal ==
    RiskOfValuedList =>
       LET sc == out.val.sectorConcentration
           sectors == {positions[i].sector : i \in 1 .. Len(positions)}
       IN  /\ Len(sc) = Cardinality(sectors)
           /\ {sc[k].sector : k \in 1 .. Len(sc)} = sectors
           /\ \A k \in 1 .. Len(sc) : sc[k].weight = WeightInSector(sc[k].sector)
           /\ SumSeq([k \in 1 .. Len(sc) |-> sc[k].weight]) = Num(100)

\* C5's case: two positions share a sector and a third sector-mate is absent:
\* fewer sectors than positions, more than one sector.
C5_Witness ==
    /\ RiskOfValuedList
    /\ Len(out.val.sectorConcentration) >= 2
    /\ Len(out.val.sectorConcentration) < Len(positions)

\* The rank of a risk tier.
TierRank(riskLevel) ==
    CASE riskLevel = "low" -> 0
      [] riskLevel = "moderate" -> 1
      [] riskLevel = "high" -> 2
      [] riskLevel = "extreme" -> 3

\* C6: riskLevel is 'extreme' when weight > 60, 'high' when 40 < weight <= 60,
\* 'moderate' when 25 < weight <= 40 and 'low' otherwise, so of two entries
\* the one of the larger weight never has the lower tier.
C6_RiskLevelByThreshold ==
    Called("calculateRiskMetrics") =>
       LET sc == out.val.sectorConcentration
       IN  /\ \A k \in 1 .. Len(sc) :
                 LET w == sc[k].weight
                 IN  sc[k].riskLevel =
                        IF Gt(w, Num(60)) THEN "extreme"
                        ELSE IF Gt(w, Num(40)) /\ Le(w, Num(60)) THEN "high"
                        ELSE IF Gt(w, Num(25)) /\ Le(w, Num(40)) THEN "moderate"
                        ELSE "low"
           /\ \A k, l \in 1 .. Len(sc) :
                 Le(sc[k].weight, sc[l].weight) =>
                    TierRank(sc[k].riskLevel) <= TierRank(sc[l].riskLevel)

\* C6's case: one sector at exactly 60 ('high') and one at exactly 40
\* ('moderate').
C6_Witness ==
    /\ Called("calculateRiskMetrics")
    /\ \E k, l \in 1 .. Len(out.val.sectorConcentration) :
          /\ out.val.sectorConcentration[k].weight = Num(60)
          /\ out.val.sectorConcentration[k].riskLevel = "high"
          /\ out.val.sectorConcentration[l].weight = Num(40)
          /\ out.val.sectorConcentration[l].riskLevel = "moderate"

\* The reference table's beta of a ticker, 1.0 for a ticker not in it.
ReferenceBeta(ticker) ==
    IF ticker \in DOMAIN BETA_MAP THEN Rat(BETA_MAP[ticker], 100) ELSE Num(1)

\* C7: on a non-empty list with totalValue > 0, portfolioBeta is the sum of
\* weight_i * beta_i / 100 over the positions, beta_i the reference beta of
\* the ticker (1.0 when it has none); it lies between the least and the
\* greatest of these betas, and is 1.20 for AAPL alone.
C7_BetaIsWeightedAverage ==
    RiskOfValuedList =>
       LET prs == out.val.positionRisks
           n == Len(positions)
           beta == [i \in 1 .. n |-> ReferenceBeta(positions[i].ticker)]
       IN  /\ out.val.portfolioBeta =
                 SumSeq([i \in 1 .. n |-> Div(Mul(prs[i].weight, beta[i]), Num(100))])
           /\ \E i \in 1 .. n : Ge(out.val.portfolioBeta, beta[i])
           /\ \E i \in 1 .. n : Le(out.val.portfolioBeta, beta[i])
           /\ (n = 1 /\ positions[1].ticker = "AAPL") =>
                 out.val.portfolioBeta = Rat(120, 100)
           /\ (n = 1 /\ positions[1].ticker = "ZZZ") => out.val.portfolioBeta = Num(1)

\* C7's case: a ticker of the table and one without a beta, both with weight,
\* give a beta strictly between the two.
C7_Witness ==
    /\ RiskOfValuedList
    /\ \E i, j \in 1 .. Len(positions) :
          /\ positions[i].ticker = "ZZZ"
          /\ positions[j].ticker = "TSLA"
          /\ Gt(out.val.positionRisks[i].weight, Zero)
          /\ Gt(out.val.portfolioBeta, Num(1))
          /\ Lt(out.val.portfolioBeta, Num(2))

\* C8: the matrix entry of positions i and j is 1.0 when i = j, lies in
\* [0.7, 0.9) when they are different positions of the same sector and in
\* [0.3, 0.6) when their sectors differ, duplicate tickers included.
C8_CorrelationBySector ==
    Called("calculateRiskMetrics") =>
       \A i, j \in 1 .. Len(positions) :
          LET c == out.val.correlations.matrix[i][j]
          IN  IF i = j THEN c = Num(1)
              ELSE IF positions[i].sector = positions[j].sector
                   THEN Ge(c, Rat(7, 10)) /\ Lt(c, Rat(9, 10))
                   ELSE Ge(c, Rat(3, 10)) /\ Lt(c, Rat(6, 10))

\* C9: every opportunity is labelled 'avoid' when daysHeld < 30, otherwise
\* 'harvest' when currentLoss > 3000, otherwise 'hold' (a loss of exactly
\* 3000 is 'hold').
C9_LabelByFirstMatchingRule ==
    Called("findTaxLossOpportunities") =>
       \A k \in 1 .. Len(out.val) :
          LET o == out.val[k]
          IN  /\ o.recommendation =
                    IF o.daysHeld < 30 THEN "avoid"
                    ELSE IF Gt(o.currentLoss, Num(3000)) THEN "harvest"
                    ELSE "hold"
              /\ o.currentLoss = Num(3000) => o.recommendation # "harvest"

\* C9's case: a loss of exactly 3000 labelled 'hold' beside a larger one
\* labelled 'harvest'.
C9_Witness ==
    /\ Called("findTaxLossOpportunities")
    /\ \E k, l \in 1 .. Len(out.val) :
          /\ out.val[k].currentLoss = Num(3000)
          /\ out.val[k].recommendation = "hold"
          /\ Gt(out.val[l].currentLoss, Num(10000))
          /\ out.val[l].recommendation = "harvest"

\* The sum of (currentPrice - avgPrice) * shares over the quoted positions.
UnrealizedGainOfQuoted(ps) ==
    LET quoted == SelectIdx(Len(ps), [i \in 1 .. Len(ps) |-> ps[i].currentPrice # Zero])
    IN  SumSeq([k \in 1 .. Len(quoted) |->
                  Mul(Sub(ps[quoted[k]].currentPrice, ps[quoted[k]].avgPrice),
                      ps[quoted[k]].shares)])

RateOfIncome(totalIncome) ==
    IF Gt(totalIncome, Num(500000)) THEN Rat(238, 1000)
    ELSE IF Gt(totalIncome, Num(200000)) /\ Le(totalIncome, Num(500000)) THEN Rat(20, 100)
    ELSE IF Gt(totalIncome, Num(40000)) /\ Le(totalIncome, Num(200000)) THEN Rat(15, 100)
    ELSE Zero

\* The sum of currentLoss over the 'harvest' entries of a list of opportunities.
HarvestLossSum(opportunities) ==
    LET h == SelectIdx(Len(opportunities), [i \in 1 .. Len(opportunities) |->
                          opportunities[i].recommendation = "harvest"])
    IN  SumSeq([k \in 1 .. Len(h) |-> opportunities[h[k]].currentLoss])

\* C10: calculateTaxEstimate selects the rate from otherIncome +
\* totalUnrealizedGain (0.238 above 500000, 0.20 above 200000, 0.15 above
\* 40000, else 0) and returns estimatedTaxIfSoldNow = totalUnrealizedGain *
\* rate and potentialSavings = (sum of currentLoss over the 'harvest'
\* opportunities) * rate.
C10_TaxEstimateByBracket ==
    Called("calculateTaxEstimate") =>
       LET gain == UnrealizedGainOfQuoted(positions)
           rate == RateOfIncome(Add(out.otherIncome, gain))
       IN  /\ out.val.unrealizedGains = gain
           /\ out.val.estimatedTaxIfSoldNow = Mul(gain, rate)
           /\ out.val.effectiveTaxRate = Mul(rate, Num(100))
           /\ \E seed \in Seeds :
                 out.val.potentialSavings =
                    Mul(HarvestLossSum(findTaxLossOpportunities(positions, seed, 0)), rate)
           /\ (Lt(gain, Zero) /\ rate # Zero) => Lt(out.val.estimatedTaxIfSoldNow, Zero)

\* C10's case: a negative unrealized gain at a non-zero rate gives a negative
\* estimate, with savings from a harvestable loss.
C10_Witness ==
    /\ Called("calculateTaxEstimate")
    /\ Lt(out.val.estimatedTaxIfSoldNow, Zero)
    /\ Gt(out.val.potentialSavings, Zero)

\* The list without its positions that have no live quote.
QuotedOnly(ps) ==
    Permute(ps, SelectIdx(Len(ps), [i \in 1 .. Len(ps) |-> ps[i].currentPrice # Zero]))

\* C11: a position with currentPrice = 0 contributes nothing to the Tax
\* Engine: calculateUnrealizedGains and findTaxLossOpportunities return what
\* they return on the list without it, totalUnrealizedGain is the gain of the
\* quoted positions, and when every currentPrice is 0 getTaxSummary returns
\* unrealizedGain = 0 and totalOpportunities = 0.
C11_UnquotedOutsideTaxEngine ==
    /\ Called("calculateUnrealizedGains") =>
          /\ out.val = calculateUnrealizedGains(QuotedOnly(positions))
          /\ out.val.totalUnrealizedGain = UnrealizedGainOfQuoted(positions)
    /\ Called("findTaxLossOpportunities") =>
          \E seed \in Seeds :
             out.val = findTaxLossOpportunities(QuotedOnly(positions), seed, 0)
    /\ (Called("getTaxSummary")
          /\ \A i \in 1 .. Len(positions) : positions[i].currentPrice = Zero) =>
          /\ out.val.unrealizedGain = Zero
          /\ out.val.totalOpportunities = 0
          /\ out.val.estimatedTax = Zero

\* C11's case: getTaxSummary has run on a list of several positions bought
\* at a cost, none of which has a quote.
C11_Witness ==
    /\ Called("getTaxSummary")
    /\ Len(positions) >= 2
    /\ \A i \in 1 .. Len(positions) :
          /\ positions[i].currentPrice = Zero
          /\ Gt(Mul(positions[i].avgPrice, positions[i].shares), Zero)

\* C12: analyzePortfolio on the empty list returns overallHealth 'critical',
\* healthScore 0, no scenario and exactly one recommendation, of type 'alert';
\* on a non-empty list it returns no recommendation of type 'alert'.
C12_AlertIffEmpty ==
    Called("analyzePortfolio") =>
       IF Len(positions) = 0
       THEN /\ out.val.overallHealth = "critical"
            /\ out.val.healthScore = Zero
            /\ out.val.scenarioAnalysis = <<>>
            /\ Len(out.val.recommendations) = 1
            /\ out.val.recommendations[1].type = "alert"
       ELSE \A k \in 1 .. Len(out.val.recommendations) :
               out.val.recommendations[k].type # "alert"

\* C12's case: analyzePortfolio has run on the empty list.
C12_Witness ==
    /\ Called("analyzePortfolio")
    /\ positions = <<>>
    /\ Len(out.val.recommendations) = 1

\* x limited to the interval [lo, hi].
Clamp(x, lo, hi) == IF Lt(x, lo) THEN lo ELSE IF Gt(x, hi) THEN hi ELSE x

\* The band of a health score.
BandOf(healthScore) ==
    IF Ge(healthScore, Num(80)) THEN "excellent"
    ELSE IF Ge(healthScore, Num(65)) /\ Lt(healthScore, Num(80)) THEN "good"
    ELSE IF Ge(healthScore, Num(50)) /\ Lt(healthScore, Num(65)) THEN "fair"
    ELSE IF Ge(healthScore, Num(30)) /\ Lt(healthScore, Num(50)) THEN "poor"
    ELSE IF Lt(healthScore, Num(30)) THEN "critical"
    ELSE "none"

\* C13: on a non-empty list analyzePortfolio returns healthScore = 70 + 5 *
\* (number of strengths) - 8 * (number of weaknesses) - (portfolioBeta - 1) *
\* 10 limited to [0, 100], so 0 <= healthScore <= 100, and overallHealth is
\* the band of healthScore (excellent from 80, good from 65, fair from 50,
\* poor from 30, critical below).
C13_HealthScoreClampedAndBanded ==
    (Called("analyzePortfolio") /\ Len(positions) > 0) =>
       LET beta == calculateRiskMetrics(positions, 0).portfolioBeta
           raw == Sub(Num(70 + 5 * Len(out.val.strengths)
                             - 8 * Len(out.val.weaknesses)),
                      Mul(Sub(beta, Num(1)), Num(10)))
       IN  /\ out.val.healthScore = Clamp(raw, Zero, Num(100))
           /\ Ge(out.val.healthScore, Zero)
           /\ Le(out.val.healthScore, Num(100))
           /\ out.val.overallHealth = BandOf(out.val.healthScore)

\* The unrealized P&L percent of a position.
PnlOf(pos) == Mul(Div(Sub(pos.currentPrice, pos.avgPrice), pos.avgPrice), Num(100))

\* The positions of ticker t that have a live quote and a P&L above 50.
Winners(t) ==
    {i \in 1 .. Len(positions) :
        /\ positions[i].ticker = t
        /\ positions[i].currentPrice # Zero
        /\ Gt(PnlOf(positions[i]), Num(50))}

\* The positions of ticker t that have a live quote and a P&L below -30.
Losers(t) ==
    {i \in 1 .. Len(positions) :
        /\ positions[i].ticker = t
        /\ positions[i].currentPrice # Zero
        /\ Lt(PnlOf(positions[i]), Num(-30))}

\* The 'sell' recommendations returned for ticker t with the given
\* confidence and urgency.
SellsFor(t, confidence, urgency) ==
    {k \in 1 .. Len(out.val.recommendations) :
        /\ out.val.recommendations[k].type = "sell"
        /\ out.val.recommendations[k].ticker = t
        /\ out.val.recommendations[k].confidence = confidence
        /\ out.val.recommendations[k].urgency = urgency}

\* The 'showing significant losses' weaknesses returned for ticker t.
LossWeaknessesFor(t) ==
    {k \in 1 .. Len(out.val.weaknesses) :
        /\ out.val.weaknesses[k].text = "showing significant losses"
        /\ out.val.weaknesses[k].subject = t}

\* C14: analyzePortfolio emits, per position with a live quote, exactly one
\* 'sell' recommendation (confidence 70, urgency low) and no weakness when
\* its P&L is above 50, exactly one weakness and one 'sell' recommendation
\* (confidence 75, urgency high) when its P&L is below -30, and neither
\* otherwise or without a quote: per ticker the returned signals are as many
\* as its positions above 50 and below -30, and there is no other 'sell'.
C14_SignalsByPnl ==
    (Called("analyzePortfolio") /\ Len(positions) > 0) =>
       LET tickers == {positions[i].ticker : i \in 1 .. Len(positions)}
           sells == {k \in 1 .. Len(out.val.recommendations) :
                        out.val.recommendations[k].type = "sell"}
           losses == {k \in 1 .. Len(out.val.weaknesses) :
                         out.val.weaknesses[k].text = "showing significant losses"}
       IN  /\ \A t \in tickers :
                /\ Cardinality(SellsFor(t, 70, "low")) = Cardinality(Winners(t))
                /\ Cardinality(SellsFor(t, 75, "high")) = Cardinality(Losers(t))
                /\ Cardinality(LossWeaknessesFor(t)) = Cardinality(Losers(t))
           /\ sells = UNION {SellsFor(t, 70, "low") \cup SellsFor(t, 75, "high") :
                               t \in tickers}
           /\ losses = UNION {LossWeaknessesFor(t) : t \in tickers}

\* C14's case: the list holds a position above +50%, one below -30%, and one
\* at exactly +50% or -30%.
C14_Witness ==
    /\ Called("analyzePortfolio")
    /\ \E i, j, k \in 1 .. Len(positions) :
          /\ positions[i].currentPrice # Zero /\ Gt(PnlOf(positions[i]), Num(50))
          /\ positions[j].currentPrice # Zero /\ Lt(PnlOf(positions[j]), Num(-30))
          /\ PnlOf(positions[k]) \in {Num(50), Num(-30)}
    /\ \E k \in 1 .. Len(out.val.recommendations) :
          out.val.recommendations[k].type = "sell"

\* The rank of an urgency tier: critical < high < medium < low.
UrgencyRank(urgency) ==
    CASE urgency = "critical" -> 0
      [] urgency = "high" -> 1
      [] urgency = "medium" -> 2
      [] urgency = "low" -> 3

\* The place of a rule in the order in which analyzePortfolio evaluates them.
RuleRank(rule) ==
    CASE rule = "diversification" -> 1
      [] rule = "concentration" -> 2
      [] rule = "sizing" -> 3
      [] rule = "beta" -> 4
      [] rule \in {"take-profit", "stop-loss"} -> 5

\* The tickers of the returned recommendations of a rule, in returned order.
TickersOfRule(rule) ==
    LET recs == out.val.recommendations
        at == SelectIdx(Len(recs), [k \in 1 .. Len(recs) |-> recs[k].rule = rule])
    IN  [k \in 1 .. Len(at) |-> recs[at[k]].ticker]

\* The tickers of the positions picked by keep, in input order.
TickersWhere(keep) ==
    LET at == SelectIdx(Len(positions), keep)
    IN  [k \in 1 .. Len(at) |-> positions[at[k]].ticker]

\* C15: the recommendations analyzePortfolio returns are ordered by urgency
\* (critical, high, medium, low), and recommendations of the same urgency
\* keep the order in which the rules produced them: diversification,
\* top-sector concentration, oversized positions in input order, beta, then
\* the per-position P&L signals in input order.
C15_ByUrgencyThenRuleOrder ==
    (Called("analyzePortfolio") /\ Len(positions) > 0) =>
       LET recs == out.val.recommendations
           prs == calculateRiskMetrics(positions, 0).positionRisks
           n == Len(positions)
       IN  /\ \A k, l \in 1 .. Len(recs) :
                k < l =>
                   /\ UrgencyRank(recs[k].urgency) <= UrgencyRank(recs[l].urgency)
                   /\ recs[k].urgency = recs[l].urgency =>
                         RuleRank(recs[k].rule) <= RuleRank(recs[l].rule)
           /\ TickersOfRule("sizing") =
                 TickersWhere([i \in 1 .. n |-> Gt(prs[i].weight, Num(20))])
           /\ TickersOfRule("stop-loss") =
                 TickersWhere([i \in 1 .. n |->
                    /\ positions[i].currentPrice # Zero
                    /\ Lt(PnlOf(positions[i]), Num(-30))])
           /\ TickersOfRule("take-profit") =
                 TickersWhere([i \in 1 .. n |->
                    /\ positions[i].currentPrice # Zero
                    /\ Gt(PnlOf(positions[i]), Num(50))])

\* C15's case: a stop-loss recommendation (urgency high, produced last) is
\* returned ahead of a medium one produced before it, and two
\* recommendations of one tier come from positions of different tickers.
C15_Witness ==
    /\ Called("analyzePortfolio")
    /\ \E k, l \in 1 .. Len(out.val.recommendations) :
          /\ k < l
          /\ out.val.recommendations[k].rule = "stop-loss"
          /\ out.val.recommendations[l].urgency = "medium"
    /\ \E k, l \in 1 .. Len(out.val.recommendations) :
          /\ k < l
          /\ out.val.recommendations[k].rule = out.val.recommendations[l].rule
          /\ out.val.recommendations[k].ticker # out.val.recommendations[l].ticker

TechnologyValue(ps) ==
    LET tech == SelectIdx(Len(ps), [i \in 1 .. Len(ps) |-> ps[i].sector = "Technology"])
    IN  SumSeq([k \in 1 .. Len(tech) |-> ValueAtQuoteOrCost(ps[tech[k]])])

\* On a non-empty list of total value > 0 the AI/Tech Boom scenario has
\* change = 0.40 * (value of the 'Technology' positions), portfolioValue =
\* totalValue + change, changePercent = change / totalValue * 100 in
\* [0, 40], changePercent = 40 iff allTechnology, and changePercent = 0 iff
\* no position of non-zero value is in 'Technology'.
TechBoomWith(allTechnology) ==
    (Called("analyzePortfolio") /\ Len(positions) > 0
        /\ Gt(TotalAtQuoteOrCost(positions), Zero)) =>
       LET boom == out.val.scenarioAnalysis[4]
           totalValue == TotalAtQuoteOrCost(positions)
       IN  /\ boom.name = "AI/Tech Boom"
           /\ boom.change = Mul(Rat(40, 100), TechnologyValue(positions))
           /\ boom.portfolioValue = Add(totalValue, boom.change)
           /\ boom.changePercent = Mul(Div(boom.change, totalValue), Num(100))
           /\ Ge(boom.changePercent, Zero)
           /\ Le(boom.changePercent, Num(40))
           /\ (boom.changePercent = Num(40)) <=> allTechnology
           /\ (boom.changePercent = Zero) <=>
                 \A i \in 1 .. Len(positions) :
                    ValueAtQuoteOrCost(positions[i]) # Zero =>
                       positions[i].sector # "Technology"

C18_EnginesLeaveInputAlone ==
    [][(out = NoCall /\ out' # NoCall) => positions' = positions]_vars

\* C18's case: findTaxLossOpportunities has returned its opportunities in an
\* order other than that of the positions they come from (it has sorted).
C18_Witness ==
    /\ Called("findTaxLossOpportunities")
    /\ Len(out.val) >= 2
    /\ \E i, j \in 1 .. Len(positions) :
          /\ i < j
          /\ positions[i].currentPrice # Zero
          /\ positions[j].currentPrice # Zero
          /\ Gt(LossOf(positions[i]), Zero)
          /\ Gt(LossOf(positions[j]), LossOf(positions[i]))
          /\ out.val[1].currentLoss = LossOf(positions[j])

\* A RiskMetrics record with the off-diagonal entries of its correlation
\* matrix blanked.
WithoutOffDiagonal(m) ==
    LET matrix == m.correlations.matrix
        n == Len(matrix)
    IN  [m EXCEPT !.correlations.matrix =
            [i \in 1 .. n |-> [j \in 1 .. n |->
                IF i = j THEN matrix[i][j] ELSE Zero]]]

\* A list of tax-loss opportunities with the days held blanked.
WithoutDaysHeld(opportunities) ==
    [k \in 1 .. Len(opportunities) |-> [opportunities[k] EXCEPT !.daysHeld = 0]]

\* What the engine that has run returns on the same list when its random
\* numbers are those of stream 0.
SecondCall ==
    CASE Called("calculateRiskMetrics") -> calculateRiskMetrics(positions, 0)
      [] Called("calculateUnrealizedGains") -> calculateUnrealizedGains(positions)
      [] Called("findTaxLossOpportunities") -> findTaxLossOpportunities(positions, 0, 0)
      [] Called("calculateTaxEstimate") ->
            calculateTaxEstimate(positions, out.otherIncome, 0, 0)
      [] Called("analyzePortfolio") -> analyzePortfolio(positions, 0)

\* C19 as stated: two calls of an engine on the same list return outputs
\* equal in every field other than the off-diagonal entries of
\* correlations.matrix.
C19_SameOutputButCorrelations ==
    /\ Called("calculateRiskMetrics") =>
          WithoutOffDiagonal(out.val) = WithoutOffDiagonal(SecondCall)
    /\ (\E op \in {"calculateUnrealizedGains", "findTaxLossOpportunities",
                   "calculateTaxEstimate", "analyzePortfolio"} : Called(op)) =>
          out.val = SecondCall

\* C19 amended: two calls of an engine on the same list return outputs equal
\* in every field other than the off-diagonal entries of correlations.matrix
\* and the daysHeld of the tax-loss opportunities.
C19_SameOutputButRandomFields ==
    /\ Called("calculateRiskMetrics") =>
          WithoutOffDiagonal(out.val) = WithoutOffDiagonal(SecondCall)
    /\ Called("findTaxLossOpportunities") =>
          WithoutDaysHeld(out.val) = WithoutDaysHeld(SecondCall)
    /\ (\E op \in {"calculateUnrealizedGains", "calculateTaxEstimate",
                   "analyzePortfolio"} : Called(op)) =>
          out.val = SecondCall

\* C19's case: findTaxLossOpportunities has returned an opportunity whose
\* daysHeld another call on the same list does not return.
C19_Witness ==
    /\ Called("findTaxLossOpportunities")
    /\ Len(out.val) >= 1
    /\ out.val[1].daysHeld # SecondCall[1].daysHeld
    /\ out.val[1].recommendation = SecondCall[1].recommendation

\* The percent of the total value held in a sector.
SectorShare(sector) ==
    LET in == SelectIdx(Len(positions),
                        [i \in 1 .. Len(positions) |-> positions[i].sector = sector])
    IN  Mul(Div(SumSeq([k \in 1 .. Len(in) |-> ValueAtQuoteOrCost(positions[in[k]])]),
                TotalAtQuoteOrCost(positions)),
            Num(100))

\* C20: sectorConcentration never lists a sector ahead of one of smaller
\* weight, so its first entry has the maximum weight; analyzePortfolio takes
\* that entry as topSector and emits the 'Heavy concentration' weakness and
\* its rebalance recommendation (confidence 85, urgency medium), both naming
\* a sector of maximum weight, iff some sector's weight exceeds 50.
C20_TopSectorIsHeaviest ==
    /\ Called("calculateRiskMetrics") =>
          LET sc == out.val.sectorConcentration
          IN  \A k, l \in 1 .. Len(sc) : k < l => ~Gt(sc[l].weight, sc[k].weight)
    /\ (Called("analyzePortfolio") /\ Len(positions) > 0) =>
          LET sectors == {positions[i].sector : i \in 1 .. Len(positions)}
              heavy == \E s \in sectors : Gt(SectorShare(s), Num(50))
              weak == {k \in 1 .. Len(out.val.weaknesses) :
                          out.val.weaknesses[k].text = "Heavy concentration"}
              recs == {k \in 1 .. Len(out.val.recommendations) :
                          out.val.recommendations[k].rule = "concentration"}
          IN  /\ Cardinality(weak) = (IF heavy THEN 1 ELSE 0)
              /\ Cardinality(recs) = (IF heavy THEN 1 ELSE 0)
              /\ \A k \in weak :
                    \A s \in sectors :
                       ~Gt(SectorShare(s), SectorShare(out.val.weaknesses[k].subject))
              /\ \A k \in recs :
                    /\ out.val.recommendations[k].type = "rebalance"
                    /\ out.val.recommendations[k].confidence = 85
                    /\ out.val.recommendations[k].urgency = "medium"
                    /\ \A s \in sectors :
                          ~Gt(SectorShare(s),
                              SectorShare(out.val.recommendations[k].ticker))

\* C20's case: the heavy sector is not the sector of the first position, and
\* a second sector holds value too.
C20_Witness ==
    /\ Called("analyzePortfolio")
    /\ Len(positions) > 0
    /\ \E k \in 1 .. Len(out.val.recommendations) :
          /\ out.val.recommendations[k].rule = "concentration"
          /\ out.val.recommendations[k].ticker # positions[1].sector
    /\ Gt(SectorShare(positions[1].sector), Zero)

----------------------------------------------------------------------------
(* priceService: getPriceWithFallback over the 60-second cache.  The       *)
(* function is async: a call runs up to its next await in one step, and    *)
(* calls started by overlapping refreshes interleave at the awaits.        *)

CACHE_TTL == 60000

\* The clock moves in steps of TickMs, MaxTicks times.
TickMs == 30000

MaxTicks == 3

Symbols == {"aapl", "AAPL", "msft"}

ToUpperCase(symbol) ==
    CASE symbol = "aapl" -> "AAPL"
      [] symbol = "msft" -> "MSFT"
      [] OTHER -> symbol

Prices == {100, 105}

\* What a provider answers: fetch rejects, or a response with its status
\* and body (c is Finnhub's current price, 0 for an unknown symbol; quote
\* is Alpha Vantage's 'Global Quote', absent or empty as <<>>).
FinnhubResponses ==
    {[rejects |-> TRUE, ok |-> FALSE, c |-> 0]}
        \cup {[rejects |-> FALSE, ok |-> FALSE, c |-> 0]}
        \cup {[rejects |-> FALSE, ok |-> TRUE, c |-> c] : c \in {0} \cup Prices}

AlphaVantageResponses ==
    {[rejects |-> TRUE, ok |-> FALSE, quote |-> <<>>]}
        \cup {[rejects |-> FALSE, ok |-> FALSE, quote |-> <<>>]}
        \cup {[rejects |-> FALSE, ok |-> TRUE, quote |-> q] :
                 q \in {<<>>} \cup {<<p>> : p \in Prices}}

\* PriceData; change, changePercent and volume are copied from the
\* response like price and are left out.  A PriceData | null is a sequence
\* of at most one PriceData.
PriceData(symbol, price, source, timestamp) ==
    [symbol |-> symbol, price |-> price, source |-> source,
     timestamp |-> timestamp]

getPriceFromFinnhub(symbol, response, time) ==
    IF response.rejects THEN <<>>
    ELSE IF ~response.ok THEN <<>>
    ELSE IF response.c = 0 THEN <<>>
    ELSE <<PriceData(symbol, response.c, "finnhub", time)>>

getPriceFromAlphaVantage(symbol, response, time) ==
    IF response.rejects THEN <<>>
    ELSE IF ~response.ok THEN <<>>
    ELSE IF response.quote = <<>> THEN <<>>
    ELSE <<PriceData(symbol, response.quote[1], "alphavantage", time)>>

\* priceCache.get(cacheKey): the entry, or undefined as <<>>.
CacheGet(cache, cacheKey) ==
    IF cacheKey \in DOMAIN cache THEN <<cache[cacheKey]>> ELSE <<>>

\* priceCache.set(cacheKey, { data, timestamp }).
CacheSet(cache, cacheKey, data, timestamp) ==
    [k \in DOMAIN cache \cup {cacheKey} |->
        IF k = cacheKey THEN [data |-> data, timestamp |-> timestamp]
        ELSE cache[k]]

IsFresh(cached, time) ==
    cached # <<>> /\ time - cached[1].timestamp < CACHE_TTL

PriceTick ==
    /\ now < MaxTicks * TickMs
    /\ now' = now + TickMs
    /\ UNCHANGED <<priceCache, priceCalls, everCached, OutsidePrice>>

\* getPriceWithFallback up to its first await: the cache check, then the
\* request to Finnhub.
GetPriceWithFallback(c, symbol) ==
    /\ priceCalls[c].pc = "idle"
    /\ LET cached == CacheGet(priceCache, ToUpperCase(symbol))
       IN  priceCalls' = [priceCalls EXCEPT ![c] =
              IF IsFresh(cached, now)
              THEN [IdleCall EXCEPT !.pc = "returned", !.symbol = symbol,
                                    !.cached = cached,
                                    !.result = <<cached[1].data>>]
              ELSE [IdleCall EXCEPT !.pc = "finnhub", !.symbol = symbol,
                                    !.cached = cached,
                                    !.requests = <<"finnhub">>]]
    /\ UNCHANGED <<now, priceCache, everCached, OutsidePrice>>

\* Finnhub has answered: cache and return its price, or ask Alpha Vantage.
FinnhubAnswers(c, response) ==
    /\ priceCalls[c].pc = "finnhub"
    /\ LET upperSymbol == ToUpperCase(priceCalls[c].symbol)
           finnhubPrice == getPriceFromFinnhub(upperSymbol, response, now)
       IN  IF finnhubPrice # <<>>
           THEN /\ priceCache' = CacheSet(priceCache, upperSymbol, finnhubPrice[1], now)
                /\ everCached' = everCached \cup {upperSymbol}
                /\ priceCalls' = [priceCalls EXCEPT ![c].pc = "returned",
                                                    ![c].finnhub = <<TRUE>>,
                                                    ![c].result = finnhubPrice]
           ELSE /\ priceCalls' = [priceCalls EXCEPT
                                     ![c].pc = "alphavantage",
                                     ![c].finnhub = <<FALSE>>,
                                     ![c].requests = Append(@, "alphavantage")]
                /\ UNCHANGED <<priceCache, everCached>>
    /\ UNCHANGED <<now, OutsidePrice>>

\* Alpha Vantage has answered: cache and return its price, else the entry
\* read before the requests, else null.
AlphaVantageAnswers(c, response) ==
    /\ priceCalls[c].pc = "alphavantage"
    /\ LET upperSymbol == ToUpperCase(priceCalls[c].symbol)
           alphaPrice == getPriceFromAlphaVantage(upperSymbol, response, now)
           cached == priceCalls[c].cached
       IN  IF alphaPrice # <<>>
           THEN /\ priceCache' = CacheSet(priceCache, upperSymbol, alphaPrice[1], now)
                /\ everCached' = everCached \cup {upperSymbol}
                /\ priceCalls' = [priceCalls EXCEPT ![c].pc = "returned",
                                                    ![c].alpha = <<TRUE>>,
                                                    ![c].result = alphaPrice]
           ELSE /\ priceCalls' = [priceCalls EXCEPT
                                     ![c].pc = "returned",
                                     ![c].alpha = <<FALSE>>,
                                     ![c].result =
                                        IF cached # <<>> THEN <<cached[1].data>>
                                        ELSE <<>>]
                /\ UNCHANGED <<priceCache, everCached>>
    /\ UNCHANGED <<now, OutsidePrice>>

\* The caller has taken the result.
PriceReturned(c) ==
    /\ priceCalls[c].pc = "returned"
    /\ priceCalls' = [priceCalls EXCEPT ![c] = IdleCall]
    /\ UNCHANGED <<now, priceCache, everCached, OutsidePrice>>

PriceInit ==
    /\ EnginesAtRest
    /\ ClockAtRest
    /\ ServicesAtRest

PriceNext ==
    \/ PriceTick
    \/ \E c \in 1 .. MaxCalls, symbol \in Symbols : GetPriceWithFallback(c, symbol)
    \/ \E c \in 1 .. MaxCalls, response \in FinnhubResponses : FinnhubAnswers(c, response)
    \/ \E c \in 1 .. MaxCalls, response \in AlphaVantageResponses :
          AlphaVantageAnswers(c, response)
    \/ \E c \in 1 .. MaxCalls : PriceReturned(c)

PriceSpec == PriceInit /\ [][PriceNext]_vars

\* What C21 says of a call c that returns in this step.
C21_Returns(c) ==
    LET call == priceCalls'[c]
        cacheKey == ToUpperCase(call.symbol)
        atStart == CacheGet(priceCache, cacheKey)
        atReturn == CacheGet(priceCache', cacheKey)
        bothFailed == call.finnhub = <<FALSE>> /\ call.alpha = <<FALSE>>
    IN  /\ call.requests \in {<<>>, <<"finnhub">>, <<"finnhub", "alphavantage">>}
        /\ (priceCalls[c].pc = "idle" /\ IsFresh(atStart, now)) =>
              /\ call.requests = <<>>
              /\ call.result = <<atStart[1].data>>
        /\ call.requests = <<>> => IsFresh(atStart, now)
        /\ Len(call.requests) = 2 <=> call.finnhub = <<FALSE>>
        /\ (call.finnhub = <<TRUE>> \/ call.alpha = <<TRUE>>) =>
              /\ call.result # <<>>
              /\ call.result[1].source =
                    (IF call.finnhub = <<TRUE>> THEN "finnhub" ELSE "alphavantage")
              /\ atReturn = <<[data |-> call.result[1], timestamp |-> now]>>
        /\ bothFailed =>
              call.result = (IF atReturn # <<>> THEN <<atReturn[1].data>> ELSE <<>>)
        /\ call.result = <<>> => (bothFailed /\ cacheKey \notin everCached')

\* C21: getPriceWithFallback returns a cache entry younger than 60 s without
\* any provider request; otherwise it asks Finnhub, and Alpha Vantage only
\* if Finnhub gave no price; a provider's price replaces the cache entry;
\* when both fail the cached entry is returned if one exists; null is
\* returned only when both failed and the symbol was never cached.
C21_TwoTierFallbackOverCache ==
    [][\A c \in 1 .. MaxCalls :
          (priceCalls[c].pc # "returned" /\ priceCalls'[c].pc = "returned")
             => C21_Returns(c)]_vars

----------------------------------------------------------------------------
(* alphaVantage: getStockPrice behind rateLimitedFetch.  getMultiplePrices *)
(* awaits getStockPrice for one symbol after the other, so overlapping     *)
(* invocations of either are overlapping calls of getStockPrice.           *)

RATE_LIMIT_DELAY == 12000

\* The clock of this service moves in steps of LimiterTickMs from the time
\* the module was loaded.
LimiterTickMs == 6000

LoadTime == 600000

MaxLimiterTicks == 11

MaxErrors == 2

StockSymbols == {"aapl"}

\* What Alpha Vantage answers: fetch rejects, or a response with a status
\* and a body that fails to parse, has no quote, or quotes a price.
StockResponses ==
    {[rejects |-> TRUE, status |-> 0, json |-> "none", price |-> 0]}
        \cup {[rejects |-> FALSE, status |-> s, json |-> "none", price |-> 0] :
                 s \in {429, 500}}
        \cup {[rejects |-> FALSE, status |-> 200, json |-> j, price |-> 0] :
                 j \in {"invalid", "empty"}}
        \cup {[rejects |-> FALSE, status |-> 200, json |-> "quote", price |-> p] :
                 p \in Prices}

\* cached?.data || null
CachedDataOrNull(cached) == IF cached # <<>> THEN <<cached[1].data>> ELSE <<>>

LimiterTick ==
    /\ now < LoadTime + MaxLimiterTicks * LimiterTickMs
    /\ now' = now + LimiterTickMs
    /\ UNCHANGED <<alphaCache, lastRequestTime, consecutiveErrors, stockCalls,
                   OutsideLimiter>>

\* getStockPrice up to its first await: a fresh cache entry is returned;
\* otherwise rateLimitedFetch either sleeps for the rest of the delay or
\* stamps lastRequestTime and starts the request.
GetStockPrice(c, symbol) ==
    /\ stockCalls[c].pc = "idle"
    /\ LET cached == CacheGet(alphaCache, ToUpperCase(symbol))
           timeSinceLastRequest == now - lastRequestTime
           call == [IdleStockCall EXCEPT !.symbol = symbol, !.cached = cached]
       IN  IF IsFresh(cached, now)
           THEN /\ stockCalls' = [stockCalls EXCEPT ![c] =
                       [call EXCEPT !.pc = "returned",
                                    !.result = <<cached[1].data>>]]
                /\ UNCHANGED lastRequestTime
           ELSE IF timeSinceLastRequest < RATE_LIMIT_DELAY
           THEN /\ stockCalls' = [stockCalls EXCEPT ![c] =
                       [call EXCEPT !.pc = "sleeping",
                                    !.wakeAt = now + (RATE_LIMIT_DELAY
                                                        - timeSinceLastRequest)]]
                /\ UNCHANGED lastRequestTime
           ELSE /\ stockCalls' = [stockCalls EXCEPT ![c] =
                       [call EXCEPT !.pc = "fetching"]]
                /\ lastRequestTime' = now
    /\ UNCHANGED <<now, alphaCache, consecutiveErrors, OutsideLimiter>>

\* The timer of line 33 fires: lastRequestTime is stamped and the request
\* starts.
WakeUp(c) ==
    /\ stockCalls[c].pc = "sleeping"
    /\ now >= stockCalls[c].wakeAt
    /\ stockCalls' = [stockCalls EXCEPT ![c].pc = "fetching"]
    /\ lastRequestTime' = now
    /\ UNCHANGED <<now, alphaCache, consecutiveErrors, OutsideLimiter>>

\* fetch settles: a 429, a rejection or another status counts an error and
\* makes getStockPrice return the entry it read, or null; a 200 resets the
\* count and its body is awaited.
FetchSettles(c, response) ==
    /\ stockCalls[c].pc = "fetching"
    /\ IF response.rejects \/ response.status # 200
       THEN /\ consecutiveErrors < MaxErrors
            /\ consecutiveErrors' = consecutiveErrors + 1
            /\ stockCalls' = [stockCalls EXCEPT
                                 ![c].pc = "returned",
                                 ![c].result = CachedDataOrNull(stockCalls[c].cached)]
       ELSE /\ consecutiveErrors' = 0
            /\ stockCalls' = [stockCalls EXCEPT ![c].pc = "parsing",
                                                ![c].response = <<response>>]
    /\ UNCHANGED <<now, alphaCache, lastRequestTime, OutsideLimiter>>

\* response.json() settles: a quote is cached and returned; no quote, or a
\* body that does not parse, returns the entry read at the start, or null.
BodyParsed(c) ==
    /\ stockCalls[c].pc = "parsing"
    /\ LET response == stockCalls[c].response[1]
           cacheKey == ToUpperCase(stockCalls[c].symbol)
           priceData == PriceData(cacheKey, response.price, "alphavantage", now)
       IN  IF response.json = "quote"
           THEN /\ alphaCache' = CacheSet(alphaCache, cacheKey, priceData, now)
                /\ stockCalls' = [stockCalls EXCEPT ![c].pc = "returned",
                                                    ![c].result = <<priceData>>]
           ELSE /\ stockCalls' = [stockCalls EXCEPT
                                     ![c].pc = "returned",
                                     ![c].result =
                                        CachedDataOrNull(stockCalls[c].cached)]
                /\ UNCHANGED alphaCache
    /\ UNCHANGED <<now, lastRequestTime, consecutiveErrors, OutsideLimiter>>

StockPriceReturned(c) ==
    /\ stockCalls[c].pc = "returned"
    /\ stockCalls' = [stockCalls EXCEPT ![c] = IdleStockCall]
    /\ UNCHANGED <<now, alphaCache, lastRequestTime, consecutiveErrors,
                   OutsideLimiter>>

LimiterInit ==
    /\ EnginesAtRest
    /\ now = LoadTime
    /\ ServicesAtRest

LimiterNext ==
    \/ LimiterTick
    \/ \E c \in 1 .. MaxCalls, symbol \in StockSymbols : GetStockPrice(c, symbol)
    \/ \E c \in 1 .. MaxCalls : WakeUp(c)
    \/ \E c \in 1 .. MaxCalls, response \in StockResponses : FetchSettles(c, response)
    \/ \E c \in 1 .. MaxCalls : BodyParsed(c)
    \/ \E c \in 1 .. MaxCalls : StockPriceReturned(c)

LimiterSpec == LimiterInit /\ [][LimiterNext]_vars

\* A request of call c starts in this step.
RequestStarts(c) ==
    stockCalls[c].pc # "fetching" /\ stockCalls'[c].pc = "fetching"

\* C22: any two requests started by rateLimitedFetch are at least
\* RATE_LIMIT_DELAY apart: when one starts, the one before it (stamped in
\* lastRequestTime, 0 before the first) started 12000 ms earlier or more.
C22_RequestsTwelveSecondsApart ==
    [][\A c \in 1 .. MaxCalls :
          (RequestStarts(c) /\ lastRequestTime # 0)
             => now' - lastRequestTime >= RATE_LIMIT_DELAY]_vars

----------------------------------------------------------------------------
(* portfolioHistory: savePortfolioSnapshot over the history kept in        *)
(* localStorage.  The clock of this service counts hours; a calendar date  *)
(* (the UTC day of toISOString) is the number of the day.                  *)

MAX_SNAPSHOTS == 90

HoursPerDay == 24

\* The clock moves in steps of half a day, MaxHalfDays times; at most
\* MaxSaves snapshots are saved.
HalfDay == 12

MaxHalfDays == 5

MaxSaves == 4

\* new Date().toISOString().split('T')[0]
DateOf(hours) == hours \div HoursPerDay

\* positions.reduce((sum, p) => sum + (p.shares * p.avgPrice), 0)
TotalCost(ps) == SumSeq([i \in 1 .. Len(ps) |-> Mul(ps[i].shares, ps[i].avgPrice)])

\* JSON.parse(JSON.stringify(x)) of a number: null for NaN and the
\* infinities, written here as the fraction -1/0 no arithmetic yields.
JsonNull == [num |-> 0, den |-> -1]

JsonNumber(x) == IF IsFinite(x) THEN x ELSE JsonNull

JsonPosition(pos) ==
    [ticker |-> pos.ticker, sector |-> pos.sector,
     shares |-> JsonNumber(pos.shares), avgPrice |-> JsonNumber(pos.avgPrice),
     currentPrice |-> JsonNumber(pos.currentPrice)]

\* The snapshot as it reads back from localStorage.
Snapshot(ps, hours) ==
    [timestamp |-> hours,
     date |-> DateOf(hours),
     totalValue |-> JsonNumber(TotalValue(ps)),
     totalCost |-> JsonNumber(TotalCost(ps)),
     positions |-> [i \in 1 .. Len(ps) |-> JsonPosition(ps[i])]]

\* history.findIndex(h => h.date === date), 0 for -1.
FindIndex(h, date) ==
    IF \E i \in 1 .. Len(h) : h[i].date = date
    THEN CHOOSE i \in 1 .. Len(h) :
            h[i].date = date /\ \A j \in 1 .. i - 1 : h[j].date # date
    ELSE 0

\* Mutant of savePortfolioSnapshot: today's snapshot is looked up by its
\* timestamp, so a second save on a date is pushed.
savePortfolioSnapshotByTimestamp(h, ps, hours) ==
    LET snapshot == Snapshot(ps, hours)
        found == \E i \in 1 .. Len(h) : h[i].timestamp = snapshot.timestamp
        updated == IF found
                   THEN [i \in 1 .. Len(h) |->
                           IF h[i].timestamp = snapshot.timestamp THEN snapshot
                           ELSE h[i]]
                   ELSE Append(h, snapshot)
    IN  IF Len(updated) > MAX_SNAPSHOTS THEN Tail(updated) ELSE updated

\* The history savePortfolioSnapshot(positions) stores, from the history h
\* it reads.
savePortfolioSnapshot(h, ps, hours) ==
    LET snapshot == Snapshot(ps, hours)
        todayIndex == FindIndex(h, snapshot.date)
        updated == IF todayIndex > 0
                   THEN [h EXCEPT ![todayIndex] = snapshot]
                   ELSE Append(h, snapshot)
    IN  IF Len(updated) > MAX_SNAPSHOTS THEN Tail(updated) ELSE updated

\* The portfolios saved: none, one position, two positions.
SavedPortfolios ==
    { <<>>,
      <<Pos("AAPL", "Technology", 100, 100, 70)>>,
      <<Pos("AAPL", "Technology", 100, 100, 0), Pos("WMT", "Consumer", 10, 100, 150)>> }

\* The model starts at midnight of day StartDay, from the history n daily
\* saves leave: one snapshot at midnight on each of the n days up to
\* StartDay.
StartDay == MAX_SNAPSHOTS

DailyHistory(n) ==
    [k \in 1 .. n |-> Snapshot(<<Pos("AAPL", "Technology", 100, 100, 70)>>,
                               (StartDay - n + k) * HoursPerDay)]

DailySaves == {0, 1, MAX_SNAPSHOTS - 1, MAX_SNAPSHOTS}

HistoryTick ==
    /\ clockHours < StartDay * HoursPerDay + MaxHalfDays * HalfDay
    /\ clockHours' = clockHours + HalfDay
    /\ UNCHANGED <<history, saves, OutsideHistory>>

SavePortfolioSnapshot ==
    /\ saves < MaxSaves
    /\ \E ps \in SavedPortfolios :
          history' = savePortfolioSnapshot(history, ps, clockHours)
    /\ saves' = saves + 1
    /\ UNCHANGED <<clockHours, OutsideHistory>>

HistoryInit ==
    /\ EnginesAtRest
    /\ ClockAtRest
    /\ ServicesAtRestBut("history")
    /\ history \in {DailyHistory(n) : n \in DailySaves}
    /\ clockHours = StartDay * HoursPerDay
    /\ saves = 0

HistoryNext ==
    \/ HistoryTick
    \/ SavePortfolioSnapshot

HistorySpec == HistoryInit /\ [][HistoryNext]_vars

\* What C23 says of a save in this step: on a date that has a snapshot that
\* one is replaced where it stands; on a new date one snapshot is appended,
\* and the oldest (the first) is dropped when that makes more than 90.
C23_SaveStep ==
    LET date == DateOf(clockHours)
        n == Len(history)
        dated == {i \in 1 .. n : history[i].date = date}
    IN  IF dated # {}
        THEN /\ Len(history') = n
             /\ \A i \in 1 .. n :
                   IF i \in dated
                   THEN history'[i].date = date /\ history'[i].timestamp = clockHours
                   ELSE history'[i] = history[i]
        ELSE IF n < MAX_SNAPSHOTS
        THEN /\ Len(history') = n + 1
             /\ SubSeq(history', 1, n) = history
             /\ history'[n + 1].date = date
        ELSE /\ Len(history') = MAX_SNAPSHOTS
             /\ SubSeq(history', 1, n - 1) = Tail(history)
             /\ history'[n].date = date

\* C23: the stored history always holds at most 90 snapshots and at most
\* one per calendar date, and every savePortfolioSnapshot replaces in place,
\* appends, or appends and drops the oldest, as the date and the length say.
C23_NinetySnapshotsOnePerDate ==
    /\ [](/\ Len(history) <= MAX_SNAPSHOTS
          /\ \A i, j \in 1 .. Len(history) :
                history[i].date = history[j].date => i = j)
    /\ [][saves' = saves + 1 => C23_SaveStep]_vars

\* C23's case: saves have pushed the two oldest snapshots out of a full
\* history, and a snapshot taken at noon is stored.
C23_Witness ==
    /\ saves > 0
    /\ Len(history) = MAX_SNAPSHOTS
    /\ history[1].date >= 3
    /\ \E i \in 1 .. Len(history) : history[i].timestamp % HoursPerDay # 0

----------------------------------------------------------------------------
(* Tasks: the recurring templates and the tasks generated from them, both  *)
(* kept in localStorage.  taskNow is Date.now() in milliseconds since the  *)
(* page was opened; today is the day of November 2026 (the 1st a Sunday).  *)

MaxTaskMs == 1

MaxTemplates == 3

MaxGenerations == 2

LastDay == 2

RecurrencePatterns == {"daily", "weekdays", "weekly", "monthly"}

\* Date.prototype.getDay of a day of November 2026: 0 is Sunday.
GetDay(day) == (day - 1) % 7

\* Date.prototype.getDate.
GetDate(day) == day

\* Date.now().toString(): the decimal digits.
IdOf(ms) == ToString(ms)

Template(id, recurrencePattern, startDate) ==
    [id |-> id, recurrencePattern |-> recurrencePattern, startDate |-> startDate]

\* createTask plus the recurrence fields of the template; title, priority,
\* tags and estimatedMinutes are copied from the template and left out.
TaskWithMeta(template, todayStr, ms) ==
    [id |-> IdOf(ms), createdAt |-> ms, status |-> "todo", dueDate |-> todayStr,
     isRecurring |-> TRUE, recurrencePattern |-> template.recurrencePattern,
     recurrenceId |-> template.id]

getDefaultRecurringTemplates(day) ==
    << Template("default-1", "daily", day),
       Template("default-2", "weekdays", day),
       Template("default-3", "weekly", day) >>

\* The switch of generateRecurringTasksForToday.
ShouldCreate(template, day) ==
    LET dayOfWeek == GetDay(day)
        isWeekend == dayOfWeek = 0 \/ dayOfWeek = 6
    IN  CASE template.recurrencePattern = "daily" -> TRUE
          [] template.recurrencePattern = "weekdays" -> ~isWeekend
          [] template.recurrencePattern = "weekly" ->
                GetDay(template.startDate) = dayOfWeek
          [] template.recurrencePattern = "monthly" ->
                GetDate(day) = GetDate(template.startDate)

AlreadyExists(store, template, todayStr) ==
    \E k \in 1 .. Len(store) :
       /\ store[k].recurrenceId = template.id
       /\ store[k].dueDate = todayStr
       /\ store[k].status # "done"

\* allTasks.filter(t => t.id !== id)
WithoutId(store, id) ==
    LET kept == SelectIdx(Len(store), [k \in 1 .. Len(store) |-> store[k].id # id])
    IN  [k \in 1 .. Len(kept) |-> store[kept[k]]]

\* The store after the callback of templates.forEach has run for the
\* templates i .. Len(ts), Date.now() returning times[i] for template i.
RECURSIVE GenerateFrom(_, _, _, _, _)
GenerateFrom(i, ts, store, day, times) ==
    IF i > Len(ts) THEN store
    ELSE IF ShouldCreate(ts[i], day) /\ ~AlreadyExists(store, ts[i], day)
    THEN LET taskWithMeta == TaskWithMeta(ts[i], day, times[i])
         IN  GenerateFrom(i + 1, ts,
                          Append(WithoutId(store, taskWithMeta.id), taskWithMeta),
                          day, times)
    ELSE GenerateFrom(i + 1, ts, store, day, times)

generateRecurringTasksForToday(ts, store, day, times) ==
    GenerateFrom(1, ts, store, day, times)

\* The values Date.now() may return to n calls in a row, from ms on: never
\* decreasing, within the clock's bound.
ClockReadings(n, ms) ==
    {times \in [1 .. n -> ms .. MaxTaskMs] :
        \A i \in 1 .. n - 1 : times[i] <= times[i + 1]}

TaskTick ==
    /\ taskNow < MaxTaskMs
    /\ taskNow' = taskNow + 1
    /\ UNCHANGED <<tasks, templates, today, generations, OutsideTask>>

NextDay ==
    /\ today < LastDay
    /\ today' = today + 1
    /\ UNCHANGED <<tasks, templates, taskNow, generations, OutsideTask>>

InitializeRecurringTasks ==
    /\ templates = <<>>
    /\ templates' = getDefaultRecurringTemplates(today)
    /\ UNCHANGED <<tasks, taskNow, today, generations, OutsideTask>>

SaveRecurringTemplate ==
    /\ Len(templates) < MaxTemplates
    /\ \E recurrencePattern \in RecurrencePatterns :
          templates' = Append(templates,
                              Template(IdOf(taskNow), recurrencePattern, today))
    /\ UNCHANGED <<tasks, taskNow, today, generations, OutsideTask>>

DeleteRecurringTemplate ==
    /\ \E i \in 1 .. Len(templates) :
          LET kept == SelectIdx(Len(templates),
                                [k \in 1 .. Len(templates) |->
                                    templates[k].id # templates[i].id])
          IN  templates' = [k \in 1 .. Len(kept) |-> templates[kept[k]]]
    /\ UNCHANGED <<tasks, taskNow, today, generations, OutsideTask>>

UpdateTaskStatus ==
    /\ \E i \in 1 .. Len(tasks), status \in {"done"} :
          tasks' = [k \in 1 .. Len(tasks) |->
                       IF tasks[k].id = tasks[i].id
                       THEN [tasks[k] EXCEPT !.status = status]
                       ELSE tasks[k]]
    /\ UNCHANGED <<templates, taskNow, today, generations, OutsideTask>>

GenerateRecurringTasksForToday ==
    /\ generations < MaxGenerations
    /\ \E times \in ClockReadings(Len(templates), taskNow) :
          /\ tasks' = generateRecurringTasksForToday(templates, tasks, today, times)
          /\ taskNow' = IF Len(templates) = 0 THEN taskNow
                        ELSE times[Len(templates)]
    /\ generations' = generations + 1
    /\ UNCHANGED <<templates, today, OutsideTask>>

TaskInit ==
    /\ EnginesAtRest
    /\ ClockAtRest
    /\ ServicesAtRestBut("tasks")
    /\ TasksAtRest

TaskNext ==
    \/ TaskTick
    \/ NextDay
    \/ InitializeRecurringTasks
    \/ SaveRecurringTemplate
    \/ DeleteRecurringTemplate
    \/ UpdateTaskStatus
    \/ GenerateRecurringTasksForToday

TaskSpec == TaskInit /\ [][TaskNext]_vars

\* The tasks of a store that stand for a template today, done or not.
TasksFor(store, template, day) ==
    {k \in 1 .. Len(store) :
        store[k].recurrenceId = template.id /\ store[k].dueDate = day}

\* C24: when generateRecurringTasksForToday returns, every stored template
\* whose pattern matches today has a not-done task of today in the store,
\* and the call added at most one task per template, none for a template
\* that already had one, whatever Date.now() returned during the call.
C24_OneTaskPerMatchingTemplate ==
    [][generations' = generations + 1 =>
          \A i \in 1 .. Len(templates) :
             LET template == templates[i]
                 added == Cardinality(TasksFor(tasks', template, today))
                            - Cardinality(TasksFor(tasks, template, today))
             IN  /\ ShouldCreate(template, today) =>
                       AlreadyExists(tasks', template, today)
                 /\ added <= 1
                 /\ AlreadyExists(tasks, template, today) => added = 0]_vars

----------------------------------------------------------------------------
(* portfolioManager: the portfolios and the active portfolio id, each a    *)
(* localStorage item.  An item that was never set (getItem returns null)   *)
(* is <<>>; an item that was set is a sequence holding its one value.      *)

MaxPortfolios == 3

MaxManagerMs == 2

PortfolioTypes == {"taxable", "ira"}

Portfolio(id, type, ms) ==
    [id |-> id, type |-> type, positions |-> <<>>, createdAt |-> ms,
     updatedAt |-> ms]

createDefaultPortfolio(ms) == Portfolio("default", "taxable", ms)

\* `portfolio-${Date.now()}`
PortfolioId(ms) == "portfolio-" \o ToString(ms)

\* stored ? JSON.parse(stored) : [createDefaultPortfolio()]
getAllPortfolios(stored, ms) ==
    IF stored # <<>> THEN stored[1] ELSE <<createDefaultPortfolio(ms)>>

\* localStorage.getItem('alpha-forge-active-portfolio') || 'default'
getActivePortfolioId(active) ==
    IF active # <<>> /\ active[1] # "" THEN active[1] ELSE "default"

\* portfolios.filter(p => p.id !== id)
Filtered(portfolios, id) ==
    LET kept == SelectIdx(Len(portfolios),
                          [k \in 1 .. Len(portfolios) |-> portfolios[k].id # id])
    IN  [k \in 1 .. Len(kept) |-> portfolios[kept[k]]]

ManagerTick ==
    /\ now < MaxManagerMs
    /\ now' = now + 1
    /\ UNCHANGED <<storedPortfolios, storedActive, OutsideManager>>

CreatePortfolio ==
    /\ Len(getAllPortfolios(storedPortfolios, now)) < MaxPortfolios
    /\ \E type \in PortfolioTypes :
          storedPortfolios' =
             <<Append(getAllPortfolios(storedPortfolios, now),
                      Portfolio(PortfolioId(now), type, now))>>
    /\ UNCHANGED <<now, storedActive, OutsideManager>>

\* setActivePortfolioId(id), for the id of an existing portfolio.
SetActivePortfolioId ==
    /\ \E i \in 1 .. Len(getAllPortfolios(storedPortfolios, now)) :
          storedActive' = <<getAllPortfolios(storedPortfolios, now)[i].id>>
    /\ UNCHANGED <<now, storedPortfolios, OutsideManager>>

\* deletePortfolio(id), for the id of an existing portfolio (for any other
\* id it returns false and stores nothing).
DeletePortfolio ==
    /\ \E i \in 1 .. Len(getAllPortfolios(storedPortfolios, now)) :
          LET portfolios == getAllPortfolios(storedPortfolios, now)
              id == portfolios[i].id
              filtered == Filtered(portfolios, id)
          IN  /\ storedPortfolios' = <<filtered>>
              /\ IF getActivePortfolioId(storedActive) = id
                 THEN storedActive' =
                         <<IF Len(filtered) > 0 THEN filtered[1].id ELSE "default">>
                 ELSE UNCHANGED storedActive
    /\ UNCHANGED <<now, OutsideManager>>

ManagerInit ==
    /\ EnginesAtRest
    /\ ClockAtRest
    /\ ServicesAtRestBut("manager")
    /\ ManagerAtRest

ManagerNext ==
    \/ ManagerTick
    \/ CreatePortfolio
    \/ SetActivePortfolioId
    \/ DeletePortfolio

ManagerSpec == ManagerInit /\ [][ManagerNext]_vars

\* C25: the id getActivePortfolioId returns is the id of a portfolio that
\* getAllPortfolios returns, also after the active portfolio, the last one
\* or the default one was deleted.
C25_ActivePortfolioExists ==
    \E i \in 1 .. Len(getAllPortfolios(storedPortfolios, now)) :
       getAllPortfolios(storedPortfolios, now)[i].id
          = getActivePortfolioId(storedActive)

----------------------------------------------------------------------------
(* The Position Store: the positions state of App and the handlers that    *)
(* set it.  A handler reads positions from the render it was created in;   *)
(* an async handler keeps that array across its awaits.  A price is        *)
(* written as the number of the market move it comes from, so that a       *)
(* smaller price is an older one; 0 is a price that is no quote.           *)

MaxStorePositions == 2

MaxMarketMoves == 1

\* Date.now() gives the ids: each add or import happens a millisecond after
\* the one before, MaxStoreMs times in all.
MaxStoreMs == 2

StoreTickers == {"AAPL", "msft"}

StoredPosition(id, ticker, currentPrice) ==
    [id |-> id, ticker |-> ticker, currentPrice |-> currentPrice]

\* quotes.set(symbol.toUpperCase(), data)
QuotesSet(quotes, symbol, price) ==
    [k \in DOMAIN quotes \cup {symbol} |-> IF k = symbol THEN price ELSE quotes[k]]

\* positions.map(pos => quote ? { ...pos, currentPrice: quote.price } : pos)
UpdatedPositions(ps, quotes) ==
    [i \in 1 .. Len(ps) |->
        IF ToUpperCase(ps[i].ticker) \in DOMAIN quotes
        THEN [ps[i] EXCEPT !.currentPrice = quotes[ToUpperCase(ps[i].ticker)]]
        ELSE ps[i]]

\* prevPositions.map of handlePriceUpdate
PriceUpdated(ps, symbol, price) ==
    [i \in 1 .. Len(ps) |->
        IF ToUpperCase(ps[i].ticker) = ToUpperCase(symbol)
        THEN [ps[i] EXCEPT !.currentPrice = price]
        ELSE ps[i]]

MarketMoves ==
    /\ \E t \in DOMAIN market :
          /\ market[t] < 1 + MaxMarketMoves
          /\ market' = [market EXCEPT ![t] = @ + 1]
    /\ UNCHANGED <<positions, now, refreshes, csvImport, OutsideStore>>

AddPosition ==
    /\ Len(positions) < MaxStorePositions
    /\ now < MaxStoreMs
    /\ now' = now + 1
    /\ \E ticker \in StoreTickers :
          positions' = Append(positions, StoredPosition(ToString(now'), ticker, 0))
    /\ UNCHANGED <<market, refreshes, csvImport, OutsideStore>>

RemovePosition ==
    /\ \E i \in 1 .. Len(positions) :
          LET kept == SelectIdx(Len(positions),
                                [k \in 1 .. Len(positions) |->
                                    positions[k].id # positions[i].id])
          IN  positions' = [k \in 1 .. Len(kept) |-> positions[kept[k]]]
    /\ UNCHANGED <<now, market, refreshes, csvImport, OutsideStore>>

\* handleCsvUpload up to await importFromCsv(file).
CsvUploadStarts ==
    /\ csvImport = <<>>
    /\ csvImport' = <<positions>>
    /\ UNCHANGED <<positions, now, market, refreshes, OutsideStore>>

\* importFromCsv has settled, with one position or none.
CsvUploadEnds ==
    /\ csvImport # <<>>
    /\ csvImport' = <<>>
    /\ \/ UNCHANGED <<positions, now>>
       \/ /\ Len(csvImport[1]) < MaxStorePositions
          /\ now < MaxStoreMs
          /\ now' = now + 1
          /\ \E ticker \in StoreTickers :
                positions' = Append(csvImport[1],
                                    StoredPosition(ToString(now') \o "csv", ticker, 0))
    /\ UNCHANGED <<market, refreshes, OutsideStore>>

\* A trade arrives on the WebSocket: handlePriceUpdate.
HandlePriceUpdate ==
    /\ \E t \in DOMAIN market :
          positions' = PriceUpdated(positions, t, market[t])
          /\ refreshes' = [r \in 1 .. MaxRefreshes |->
                              IF refreshes[r].pc = "idle" THEN refreshes[r]
                              ELSE [refreshes[r] EXCEPT !.delivered = @ \cup {t}]]
    /\ UNCHANGED <<now, market, csvImport, OutsideStore>>

\* refreshPrices up to its await; with no position the loop of
\* getMultiplePricesWithFallback is empty and nothing is set.
RefreshPrices(r) ==
    /\ refreshes[r].pc = "idle"
    /\ refreshes' = [refreshes EXCEPT ![r] =
          IF Len(positions) = 0 THEN IdleRefresh
          ELSE [IdleRefresh EXCEPT !.pc = "fetching", !.snapshot = positions,
                                   !.next = 1]]
    /\ UNCHANGED <<positions, now, market, csvImport, OutsideStore>>

\* getPriceWithFallback settles for the next symbol, with the market's
\* price or with null; the 200 ms delay follows.
QuoteSettles(r) ==
    /\ refreshes[r].pc = "fetching"
    /\ LET symbol == ToUpperCase(refreshes[r].snapshot[refreshes[r].next].ticker)
       IN  \/ refreshes' = [refreshes EXCEPT
                               ![r].pc = "delaying",
                               ![r].quotes = QuotesSet(@, symbol, market[symbol])]
           \/ refreshes' = [refreshes EXCEPT ![r].pc = "delaying"]
    /\ UNCHANGED <<positions, now, market, csvImport, OutsideStore>>

\* The delay is over and there is another symbol to fetch.
NextSymbol(r) ==
    /\ refreshes[r].pc = "delaying"
    /\ refreshes[r].next < Len(refreshes[r].snapshot)
    /\ refreshes' = [refreshes EXCEPT ![r].pc = "fetching", ![r].next = @ + 1]
    /\ UNCHANGED <<positions, now, market, csvImport, OutsideStore>>

\* The last delay is over: getMultiplePricesWithFallback returns and
\* refreshPrices sets the positions it read at its start, with the quotes.
RefreshCompletes(r) ==
    /\ refreshes[r].pc = "delaying"
    /\ refreshes[r].next = Len(refreshes[r].snapshot)
    /\ IF DOMAIN refreshes[r].quotes # {}
       THEN positions' = UpdatedPositions(refreshes[r].snapshot, refreshes[r].quotes)
       ELSE UNCHANGED positions
    /\ refreshes' = [refreshes EXCEPT ![r] = IdleRefresh]
    /\ UNCHANGED <<now, market, csvImport, OutsideStore>>

StoreInit ==
    /\ EnginesAtRest
    /\ ClockAtRest
    /\ ServicesAtRestBut("store")
    /\ StoreAtRest

StoreNext ==
    \/ MarketMoves
    \/ AddPosition
    \/ RemovePosition
    \/ CsvUploadStarts
    \/ CsvUploadEnds
    \/ HandlePriceUpdate
    \/ \E r \in 1 .. MaxRefreshes : RefreshPrices(r)
    \/ \E r \in 1 .. MaxRefreshes : QuoteSettles(r)
    \/ \E r \in 1 .. MaxRefreshes : NextSymbol(r)
    \/ \E r \in 1 .. MaxRefreshes : RefreshCompletes(r)

StoreSpec == StoreInit /\ [][StoreNext]_vars

\* C26: when a refresh completes it leaves the positions the store holds
\* (those of the latest add, remove or import) in place, and replaces no
\* price a WebSocket update delivered during the refresh by an older one.
C26_RefreshOnlyFeedsCurrentPrice ==
    [][\A r \in 1 .. MaxRefreshes :
          (refreshes[r].pc = "delaying" /\ refreshes'[r].pc = "idle") =>
             /\ Len(positions') = Len(positions)
             /\ \A i \in 1 .. Len(positions) :
                   /\ positions'[i].id = positions[i].id
                   /\ positions'[i].ticker = positions[i].ticker
                   /\ ToUpperCase(positions[i].ticker) \in refreshes[r].delivered
                         => positions'[i].currentPrice >= positions[i].currentPrice]_vars

----------------------------------------------------------------------------
\* Finnhub streaming (src/unnamed/part_005, lines 15-125): the module-level
\* ws, subscribedSymbols and reconnectAttempts, the WebSocket objects made by
\* initWebSocket with the handlers it attaches to each of them, and the
\* reconnect timers.  A browser delivers each event (open, close, timer,
\* effect) as a task of its own, so each is one action.  priceCallbacks is
\* never written to by the module and is left out; messages change none of
\* this state.

MAX_RECONNECT_ATTEMPTS == 5

\* How many WebSocket objects are made in a behaviour.
MaxSockets == 6

StreamSymbols == {"AAPL"}

\* Mutant of ShouldReconnect: the counter compared with <=.
ShouldReconnectInclusive(attempts) == attempts <= MAX_RECONNECT_ATTEMPTS

\* The test of onclose (line 75).
ShouldReconnect(attempts) == attempts < MAX_RECONNECT_ATTEMPTS

\* ws?.readyState === WebSocket.OPEN (line 28).
WsIsOpen == ws # <<>> /\ sockets[ws[1]] = "OPEN"

\* The body of initWebSocket: the open socket is kept, otherwise a new
\* WebSocket (CONNECTING) replaces ws, whatever ws was.
InitWebSocketBody ==
    IF WsIsOpen
    THEN UNCHANGED <<sockets, ws>>
    ELSE /\ Len(sockets) < MaxSockets
         /\ sockets' = Append(sockets, "CONNECTING")
         /\ ws' = <<Len(sockets) + 1>>

\* The mount effect of App (part_003, lines 571-581).
InitWebSocket ==
    /\ InitWebSocketBody
    /\ released' = FALSE
    /\ UNCHANGED <<reconnectAttempts, timers, subscribedSymbols, opened,
                   scheduledSinceOpen, lastClose, OutsideSocket>>

\* The open event of socket s: onopen (lines 35-45).
SocketOpens(s) ==
    /\ sockets[s] = "CONNECTING"
    /\ sockets' = [sockets EXCEPT ![s] = "OPEN"]
    /\ reconnectAttempts' = 0
    /\ opened' = TRUE
    /\ scheduledSinceOpen' = 0
    /\ UNCHANGED <<ws, timers, subscribedSymbols, released, lastClose,
                   OutsideSocket>>

\* The close event of socket s (the connection failed, the server closed it,
\* or close() was called on it): onclose (lines 70-82).
SocketCloses(s) ==
    /\ sockets[s] \in {"CONNECTING", "OPEN", "CLOSING"}
    /\ sockets' = [sockets EXCEPT ![s] = "CLOSED"]
    /\ IF ShouldReconnect(reconnectAttempts)
       THEN /\ reconnectAttempts' = reconnectAttempts + 1
            /\ timers' = timers + 1
            /\ scheduledSinceOpen' = scheduledSinceOpen + 1
            /\ lastClose' = "scheduled"
       ELSE /\ UNCHANGED <<reconnectAttempts, timers, scheduledSinceOpen>>
            /\ lastClose' = "refused"
    /\ UNCHANGED <<ws, subscribedSymbols, released, opened, OutsideSocket>>

\* A reconnect timer fires (lines 77-80).
ReconnectTimerFires ==
    /\ timers > 0
    /\ timers' = timers - 1
    /\ InitWebSocketBody
    /\ UNCHANGED <<reconnectAttempts, subscribedSymbols, released, opened,
                   scheduledSinceOpen, lastClose, OutsideSocket>>

\* subscribeToSymbol (lines 96-106).
SubscribeToSymbol(symbol) ==
    /\ ToUpperCase(symbol) \notin subscribedSymbols
    /\ subscribedSymbols' = subscribedSymbols \cup {ToUpperCase(symbol)}
    /\ UNCHANGED <<sockets, ws, reconnectAttempts, timers, released, opened,
                   scheduledSinceOpen, lastClose, OutsideSocket>>

\* unsubscribeFromSymbol (lines 109-117).
UnsubscribeFromSymbol(symbol) ==
    /\ ToUpperCase(symbol) \in subscribedSymbols
    /\ subscribedSymbols' = subscribedSymbols \ {ToUpperCase(symbol)}
    /\ UNCHANGED <<sockets, ws, reconnectAttempts, timers, released, opened,
                   scheduledSinceOpen, lastClose, OutsideSocket>>

\* closeWebSocket (lines 120-125): close() starts the closing of a socket
\* that is connecting or open, its close event comes later; the handlers
\* stay attached and the pending timers stay scheduled.
CloseWebSocket ==
    /\ sockets' = IF ws # <<>> /\ sockets[ws[1]] \in {"CONNECTING", "OPEN"}
                  THEN [sockets EXCEPT ![ws[1]] = "CLOSING"]
                  ELSE sockets
    /\ ws' = <<>>
    /\ subscribedSymbols' = {}
    /\ released' = TRUE
    /\ UNCHANGED <<reconnectAttempts, timers, opened, scheduledSinceOpen,
                   lastClose, OutsideSocket>>

SocketInit ==
    /\ EnginesAtRest
    /\ ClockAtRest
    /\ ServicesAtRestBut("socket")
    /\ SocketAtRest

SocketNext ==
    \/ InitWebSocket
    \/ \E s \in 1 .. Len(sockets) : SocketOpens(s)
    \/ \E s \in 1 .. Len(sockets) : SocketCloses(s)
    \/ ReconnectTimerFires
    \/ \E symbol \in StreamSymbols : SubscribeToSymbol(symbol)
    \/ \E symbol \in StreamSymbols : UnsubscribeFromSymbol(symbol)
    \/ CloseWebSocket

SocketSpec == SocketInit /\ [][SocketNext]_vars

\* C27: closeWebSocket is final.  From closeWebSocket until the application
\* calls initWebSocket again, no step makes a new WebSocket and no step
\* schedules a reconnect timer (so the close event of the socket being
\* closed schedules none, and no timer makes a connection attempt).
C27_CloseWebSocketIsFinal ==
    [][(released /\ released') =>
          /\ Len(sockets') = Len(sockets)
          /\ timers' <= timers]_vars

\* A connection opens in this step.
OpenEvent ==
    \E s \in 1 .. Len(sockets) : sockets[s] = "CONNECTING" /\ sockets'[s] = "OPEN"

\* A close event is delivered in this step.
CloseEvent ==
    \E s \in 1 .. Len(sockets) : sockets[s] # "CLOSED" /\ sockets'[s] = "CLOSED"

\* C28: reconnection is bounded.  reconnectAttempts stays within
\* 0 .. MAX_RECONNECT_ATTEMPTS; it goes back to 0 exactly in the steps in
\* which a connection opens and otherwise only grows by one, with one timer
\* scheduled; at most MAX_RECONNECT_ATTEMPTS timers are scheduled since the
\* last open, and a close event at the limit schedules none.
C28_ReconnectionIsBounded ==
    /\ [](/\ reconnectAttempts \in 0 .. MAX_RECONNECT_ATTEMPTS
          /\ scheduledSinceOpen \in 0 .. MAX_RECONNECT_ATTEMPTS)
    /\ [][/\ OpenEvent => reconnectAttempts' = 0
          /\ reconnectAttempts' < reconnectAttempts => OpenEvent
          /\ reconnectAttempts' > reconnectAttempts =>
                /\ reconnectAttempts' = reconnectAttempts + 1
                /\ timers' = timers + 1
                /\ CloseEvent
          /\ timers' > timers => reconnectAttempts' = reconnectAttempts + 1
          /\ (CloseEvent /\ reconnectAttempts = MAX_RECONNECT_ATTEMPTS) =>
                timers' = timers]_vars

\* After an open, five reconnects were scheduled and the close event that
\* followed scheduled none.
C28_Witness ==
    /\ opened
    /\ reconnectAttempts = MAX_RECONNECT_ATTEMPTS
    /\ scheduledSinceOpen = MAX_RECONNECT_ATTEMPTS
    /\ lastClose = "refused"

----------------------------------------------------------------------------
(* analyzePortfolio on larger portfolios.  No list of fewer than five      *)
(* positions is free of an oversized position (the weights add up to 100), *)
(* so the lists of at most MaxPositions positions never reach 'excellent'. *)
(* HealthSpec applies analyzePortfolio to the lists of MaxHealthPositions  *)
(* - 1 and MaxHealthPositions positions of equal market value.             *)

MaxHealthPositions == 5

\* ticker, sector, shares, avgPrice, currentPrice, each worth 1000: three
\* low-beta tickers in three sectors at their cost price, one down 50%, and
\* one high-beta ticker in a fourth sector.
HealthChoices ==
    { Pos("KO", "Consumer", 10, 100, 100),
      Pos("JNJ", "Healthcare", 10, 100, 100),
      Pos("XOM", "Energy", 10, 100, 100),
      Pos("JNJ", "Healthcare", 10, 200, 100),
      Pos("TSLA", "Automotive", 10, 100, 100) }

HealthLists ==
    UNION { [1 .. n -> HealthChoices] :
               n \in (MaxHealthPositions - 1) .. MaxHealthPositions }

HealthInit ==
    /\ positions \in HealthLists
    /\ out = NoCall
    /\ ClockAtRest
    /\ ServicesAtRest

HealthNext ==
    \/ CallAnalyzePortfolio
    \/ RenderDone

HealthSpec == HealthInit /\ [][HealthNext]_vars

\* The weight of position i in percent.
PositionShare(i) ==
    Mul(Div(ValueAtQuoteOrCost(positions[i]), TotalAtQuoteOrCost(positions)),
        Num(100))

\* C29: analyzePortfolio returns 'excellent' only when it found no
\* weakness, the positions span at least 3 sectors and portfolioBeta is
\* below 0.8; a portfolio with fewer than 3 sectors, a sector above 50%, a
\* position above 20% or a quoted position down more than 30% is never
\* 'excellent'.
C29_ExcellentOnlyWithoutWeakness ==
    (Called("analyzePortfolio") /\ out.val.overallHealth = "excellent") =>
       LET sectors == {positions[i].sector : i \in 1 .. Len(positions)}
       IN  /\ Len(out.val.weaknesses) = 0
           /\ Cardinality(sectors) >= 3
           /\ Lt(calculateRiskMetrics(positions, 0).portfolioBeta, Rat(8, 10))
           /\ \A s \in sectors : ~Gt(SectorShare(s), Num(50))
           /\ \A i \in 1 .. Len(positions) :
                 /\ ~Gt(PositionShare(i), Num(20))
                 /\ positions[i].currentPrice # Zero
                       => ~Lt(PnlOf(positions[i]), Num(-30))

\* An 'excellent' portfolio was returned.
C29_Witness ==
    /\ Called("analyzePortfolio")
    /\ out.val.overallHealth = "excellent"
    /\ Len(positions) = MaxHealthPositions

----------------------------------------------------------------------------
(* Potential savings in binary64.  The engines above compute in exact      *)
(* rationals; potentialSavings is computed twice by the code, as           *)
(* harvestableLosses * taxRate in calculateTaxEstimate and as              *)
(* totalHarvestableLoss * estimate.effectiveTaxRate / 100 in getTaxSummary *)
(* (effectiveTaxRate = taxRate * 100), and JavaScript rounds each product   *)
(* and quotient to the nearest binary64 number.  Here these operations are *)
(* computed as binary64 computes them.  A natural number is the sequence   *)
(* of its digits in base 2^15, least significant first, without leading    *)
(* zeros; a positive binary64 number is m * 2^e with a mantissa m of        *)
(* exactly 53 bits, and 0 is the empty mantissa.                           *)

LimbBits == 15

Base == 2 ^ LimbBits

MantissaBits == 53

RECURSIVE StripZeros(_)
StripZeros(n) ==
    IF n = <<>> THEN <<>>
    ELSE IF n[Len(n)] = 0 THEN StripZeros(SubSeq(n, 1, Len(n) - 1))
    ELSE n

\* n * k + carry for 0 <= k, carry < Base.
RECURSIVE BigMulSmall(_, _, _)
BigMulSmall(n, k, carry) ==
    IF n = <<>> THEN (IF carry = 0 THEN <<>> ELSE <<carry>>)
    ELSE LET t == n[1] * k + carry
         IN  <<t % Base>> \o BigMulSmall(Tail(n), k, t \div Base)

\* Quotient (with leading zeros) and remainder of n by 0 < k < Base.
RECURSIVE BigDivSmall(_, _)
BigDivSmall(n, k) ==
    IF n = <<>> THEN [q |-> <<>>, r |-> 0]
    ELSE LET hi == BigDivSmall(Tail(n), k)
             cur == hi.r * Base + n[1]
         IN  [q |-> <<cur \div k>> \o hi.q, r |-> cur % k]

RECURSIVE BigInc(_)
BigInc(n) ==
    IF n = <<>> THEN <<1>>
    ELSE IF n[1] + 1 < Base THEN <<n[1] + 1>> \o Tail(n)
    ELSE <<0>> \o BigInc(Tail(n))

\* The number of bits of a digit and of a natural number.
DigitBits(x) == CHOOSE b \in 0 .. LimbBits : x < 2 ^ b /\ (b = 0 \/ x >= 2 ^ (b - 1))

BitLength(n) ==
    IF n = <<>> THEN 0 ELSE (Len(n) - 1) * LimbBits + DigitBits(n[Len(n)])

\* Round to nearest, ties to even: the binary64 number nearest to
\* (n + f) * 2^e, where 0 <= f < 1 and inexact says that f > 0.
RECURSIVE RoundToDouble(_, _, _)
RoundToDouble(n, inexact, e) ==
    LET excess == BitLength(n) - MantissaBits
    IN  IF n = <<>> THEN [m |-> <<>>, e |-> 0]
        ELSE IF excess >= LimbBits
        THEN LET d == BigDivSmall(n, 2 ^ (LimbBits - 1))
             IN  RoundToDouble(StripZeros(d.q), inexact \/ d.r # 0,
                               e + LimbBits - 1)
        ELSE IF excess > 0
        THEN LET d == BigDivSmall(n, 2 ^ excess)
                 q == StripZeros(d.q)
                 half == 2 ^ (excess - 1)
                 up == \/ d.r > half
                       \/ d.r = half /\ (inexact \/ q[1] % 2 = 1)
                 m == IF up THEN BigInc(q) ELSE q
             IN  IF BitLength(m) > MantissaBits
                 THEN [m |-> StripZeros(BigDivSmall(m, 2).q), e |-> e + excess + 1]
                 ELSE [m |-> m, e |-> e + excess]
        ELSE IF excess < 0
        THEN RoundToDouble(BigMulSmall(n, 2, 0), inexact, e - 1)
        ELSE [m |-> n, e |-> e]

\* The Number of a natural number below Base.
DoubleOf(k) == RoundToDouble(IF k = 0 THEN <<>> ELSE <<k>>, FALSE, 0)

\* x * k and x / k in binary64, for a Number x >= 0 and 0 < k < Base.
TimesSmall(x, k) == RoundToDouble(BigMulSmall(x.m, k, 0), FALSE, x.e)

OverSmall(x, k) ==
    LET d == BigDivSmall(BigMulSmall(x.m, 2 ^ (LimbBits - 1), 0), k)
    IN  RoundToDouble(StripZeros(d.q), d.r # 0, x.e - (LimbBits - 1))

\* The literals 0.15, 0.20 and 0.238 of calculateTaxEstimate as binary64
\* reads them: 5404319552844595, 7205759403792794 and 8574853690513424
\* times 2^-55.
RateLiteral(taxRate) ==
    IF taxRate = Rat(238, 1000)
    THEN [m |-> <<22544, 26738, 23330, 243>>, e |-> -55]
    ELSE IF taxRate = Rat(20, 100)
    THEN [m |-> <<6554, 13107, 26214, 204>>, e |-> -55]
    ELSE IF taxRate = Rat(15, 100)
    THEN [m |-> <<13107, 26214, 19660, 153>>, e |-> -55]
    ELSE [m |-> <<>>, e |-> 0]

\* harvestableLosses * taxRate (taxReporting.ts, line 159); the total is a
\* natural number below Base.
EstimateSavings(harvestable, taxRate) ==
    IF harvestable = 0 THEN DoubleOf(0)
    ELSE TimesSmall(RateLiteral(taxRate), harvestable)

\* totalHarvestableLoss * estimate.effectiveTaxRate / 100 (line 201), with
\* effectiveTaxRate: taxRate * 100 (line 158).
SummarySavings(harvestable, taxRate) ==
    LET effectiveTaxRate == TimesSmall(RateLiteral(taxRate), 100)
    IN  IF harvestable = 0 THEN DoubleOf(0)
        ELSE OverSmall(TimesSmall(effectiveTaxRate, harvestable), 100)

\* ticker, sector, shares, avgPrice, currentPrice: losses of 3000 (held),
\* 3004, 3001 and 4000 (harvested), a loss of 100 (held), a position without
\* a quote, and gains of 150000 and 450000 that move the bracket.
SavingsChoices ==
    { Pos("AAPL", "Technology", 100, 100, 70),
      Pos("AAPL", "Technology", 4, 1000, 249),
      Pos("MSFT", "Technology", 1, 4000, 999),
      Pos("WMT", "Consumer", 100, 100, 60),
      Pos("ZZZ", "Energy", 10, 100, 90),
      Pos("AAPL", "Technology", 100, 100, 0),
      Pos("NVDA", "Technology", 1000, 100, 250),
      Pos("NVDA", "Technology", 1000, 100, 550) }

MaxSavingsPositions == 2

SavingsLists ==
    UNION { [1 .. n -> SavingsChoices] : n \in 0 .. MaxSavingsPositions }

\* What a call leaves: the opportunities it found, their harvestable total
\* and potentialSavings.
SavingsResult(opportunities, potentialSavings) ==
    [opportunities |-> opportunities,
     harvestable |-> HarvestableLosses(opportunities),
     potentialSavings |-> potentialSavings]

\* The harvestable total of findTaxLossOpportunities(ps, seed, first), a
\* natural number.
HarvestableTotal(ps, seed, first) ==
    HarvestableLosses(findTaxLossOpportunities(ps, seed, first)).num

\* The bracket of calculateTaxEstimate(positions) with the default
\* otherIncome.
DefaultTaxRate(ps) ==
    TaxRate(Add(DefaultOtherIncome, calculateUnrealizedGains(ps).totalUnrealizedGain))

\* calculateTaxEstimate(positions).
EstimateTax ==
    /\ \E seed \in Seeds :
          estimated' =
             << SavingsResult(findTaxLossOpportunities(positions, seed, 0),
                              EstimateSavings(HarvestableTotal(positions, seed, 0),
                                              DefaultTaxRate(positions))) >>
    /\ UNCHANGED <<positions, summarised, OutsideSavings>>

\* getTaxSummary(positions): its own call of findTaxLossOpportunities draws
\* after the one made by calculateTaxEstimate.
SummariseTax ==
    /\ \E seed \in Seeds :
          summarised' =
             << SavingsResult(findTaxLossOpportunities(positions, seed,
                                                       LossCount(positions)),
                              SummarySavings(HarvestableTotal(positions, seed,
                                                              LossCount(positions)),
                                             DefaultTaxRate(positions))) >>
    /\ UNCHANGED <<positions, estimated, OutsideSavings>>

SavingsInit ==
    /\ positions \in SavingsLists
    /\ out = NoCall
    /\ ClockAtRest
    /\ ServicesAtRestBut("savings")
    /\ SavingsAtRest

SavingsNext ==
    \/ EstimateTax
    \/ SummariseTax

SavingsSpec == SavingsInit /\ [][SavingsNext]_vars

\* The opportunities of the calls made so far.
OpportunitiesSeen ==
    UNION { Range(r[1].opportunities) : r \in {estimated, summarised} \ {<<>>} }

\* C30: daysHeld is an integer in 30 .. 394, so 'avoid' is never returned
\* and the recommendation is a function of currentLoss alone; consequently
\* calculateTaxEstimate and getTaxSummary, which draw daysHeld
\* independently, compute the same harvestable-loss total and the same
\* potentialSavings for the same positions.
C30_SavingsIndependentOfDaysHeld ==
    /\ \A o \in OpportunitiesSeen :
          /\ o.daysHeld \in 30 .. 394
          /\ o.recommendation # "avoid"
    /\ \A o, p \in OpportunitiesSeen :
          o.currentLoss = p.currentLoss => o.recommendation = p.recommendation
    /\ (estimated # <<>> /\ summarised # <<>>) =>
          /\ estimated[1].harvestable = summarised[1].harvestable
          /\ estimated[1].potentialSavings = summarised[1].potentialSavings

====
